---- MODULE Spec2Model ----
(***************************************************************************)
(* TransformersAIService (src/unnamed/part_002): the rule-based core of    *)
(* the Intelligent Music Map - visual scheme recommendation, musical form  *)
(* identification and similarity grouping over the relationships of the    *)
(* last recorded analysis.                                                 *)
(*                                                                         *)
(* Conventions.  JavaScript arrays are 0-based; a TLA+ sequence s holds    *)
(* array element k at s[k + 1] (operator At).  Fractions are kept exact as *)
(* integers in hundredths: a confidence of 0.95 is 95, a similarity of 0.6 *)
(* is 60.  A structure id "S3" is the integer 3.  A preference weight is   *)
(* kept in halves (the smallest reward is 0.5): weight 1 is 2.             *)
(* An optional value (lastAnalysis = null, preferences = undefined) is a   *)
(* record with an isNull flag, so that every value of a variable has one   *)
(* type.                                                                   *)
(***************************************************************************)
EXTENDS Integers, Sequences, FiniteSets, TLC

VARIABLES
    isModelLoaded,   \* TransformersAIService.isModelLoaded
    embeddingModel,  \* TransformersAIService.embeddingModel: "null" or "pipeline"
    loadingStatus,   \* TransformersAIService.loadingStatus
    lastAnalysis,    \* TransformersAIService.lastAnalysis
    call,            \* the public operation that completed last, with its arguments
    ret,             \* the value that operation returned
    recommended,     \* the last two recommendVisuals calls, oldest first (kept by SpecDet only)
    rules,           \* MusicKnowledgeBase.rules of the service's knowledge base
    isInitialized,   \* MusicKnowledgeBase.isInitialized
    embeddingRuns,   \* how many times generateSimpleEmbedding has run on that knowledge base
    loadLog,         \* how each run of the body of initializeModels ended, oldest first
    weights,         \* PreferenceLearner: the weight table of the user store's learner
    actionLog,       \* the actions recorded since the table was last empty, oldest first
    tasks,           \* the callers whose asynchronous calls on the service may overlap
    pipelineCalls,   \* how many times pipeline(...) has been called to load the model
    transformersServiceInstance,  \* AIServiceFactory: the singleton, 0 for null
    instances,       \* the TransformersAIService objects constructed so far
    returned         \* what createAIService has returned since the last resetAIService

vars == <<isModelLoaded, embeddingModel, loadingStatus, lastAnalysis, call, ret, recommended,
          rules, isInitialized, embeddingRuns, loadLog, weights, actionLog,
          tasks, pipelineCalls, transformersServiceInstance, instances, returned>>

service == <<isModelLoaded, embeddingModel, loadingStatus, loadLog>>

kb == <<rules, isInitialized, embeddingRuns>>

store == <<weights, actionLog>>

conc == <<tasks, pipelineCalls>>

factory == <<transformersServiceInstance, instances, returned>>

\* What the operations of the service, called one after the other, leave alone
outside == <<store, conc, factory>>

-----------------------------------------------------------------------------
(* Generic helpers                                                           *)

At(s, k) == s[k + 1]

Range(s) == {s[k] : k \in 1..Len(s)}

Min(S) == CHOOSE x \in S : \A y \in S : x <= y

MinOf(a, b) == IF a <= b THEN a ELSE b

\* Array.prototype.slice(from, to) on 0-based indices, to exclusive
Slice(s, from, to) ==
    LET hi == MinOf(to, Len(s))
    IN  IF from >= hi THEN <<>> ELSE [k \in 1..(hi - from) |-> s[from + k]]

\* Array.prototype.find, given the positions (1-based) of the elements that
\* satisfy the test: the first of them, 0 when there is none
FirstIndex(hits) == IF hits = {} THEN 0 ELSE Min(hits)

-----------------------------------------------------------------------------
(* Texts and embedding vectors                                               *)
(*                                                                           *)
(* A text is the sequence of its character codes.  An embedding vector is   *)
(* kept sparse: length is the array length, nz maps the indices of the      *)
(* non-zero components to their values, and unit says that the components   *)
(* are those values divided by the magnitude of nz (the array after the     *)
(* "Normalize" loop); the values of a hashed text count sixtieths, so that  *)
(* 1/(j + 1) is exact for j < 6.                                            *)

RECURSIVE SumOver(_, _)
\* Array.prototype.reduce((sum, val) => sum + ..., 0) over the entries of f in S
SumOver(f, S) ==
    IF S = {} THEN 0
    ELSE LET p == CHOOSE x \in S : TRUE IN f[p] + SumOver(f, S \ {p})

RECURSIVE SqrtBetween(_, _, _)
SqrtBetween(n, lo, hi) ==
    IF lo >= hi THEN lo
    ELSE LET mid == (lo + hi + 1) \div 2
         IN  IF mid * mid <= n THEN SqrtBetween(n, mid, hi) ELSE SqrtBetween(n, lo, mid - 1)

\* Math.sqrt, exact on the squares the vectors of this module have
Sqrt(n) == SqrtBetween(n, 0, n)

embeddingLength == 384

\* new Array(384).fill(0)
ZeroVector == [length |-> embeddingLength, nz |-> <<>>, unit |-> FALSE]

\* []
EmptyVector == [length |-> 0, nz |-> <<>>, unit |-> FALSE]

\* A unit vector with the given non-zero directions
UnitVector(nz) == [length |-> embeddingLength, nz |-> nz, unit |-> TRUE]

\* String.prototype.toLowerCase on the letters A-Z
toLowerCase(text) ==
    [k \in 1..Len(text) |-> IF text[k] \in 65..90 THEN text[k] + 32 ELSE text[k]]

\* \s: space, tab, line feed
isWhitespace(c) == c \in {32, 9, 10}

RECURSIVE splitFrom(_, _, _, _)
\* String.prototype.split(/\s+/): the pieces between maximal runs of
\* whitespace, an empty piece before a leading and after a trailing run
splitFrom(text, k, words, word) ==
    IF k > Len(text) THEN Append(words, word)
    ELSE IF isWhitespace(text[k])
         THEN IF k > 1 /\ isWhitespace(text[k - 1])
              THEN splitFrom(text, k + 1, words, word)
              ELSE splitFrom(text, k + 1, Append(words, word), <<>>)
         ELSE splitFrom(text, k + 1, words, Append(word, text[k]))

split(text) == splitFrom(text, 1, <<>>, <<>>)

\* embedding[position] += amount
addAt(nz, position, amount) ==
    IF position \in DOMAIN nz
    THEN [nz EXCEPT ![position] = @ + amount]
    ELSE [p \in DOMAIN nz \cup {position} |-> IF p = position THEN amount ELSE nz[p]]

\* embedding.reduce((sum, val) => sum + val * val, 0)
sumOfSquares(nz) == SumOver([p \in DOMAIN nz |-> nz[p] * nz[p]], DOMAIN nz)

\* "Normalize": every component divided by the magnitude when that is positive
normalize(nz) ==
    IF Sqrt(sumOfSquares(nz)) > 0
    THEN [length |-> embeddingLength, nz |-> nz, unit |-> TRUE]
    ELSE [length |-> embeddingLength, nz |-> nz, unit |-> FALSE]

RECURSIVE fallbackCharsUnshifted(_, _, _, _)
\* The word index taken as it is, not plus one
fallbackCharsUnshifted(nz, word, idx, i) ==
    IF i >= Len(word) THEN nz
    ELSE LET charCode == At(word, i)
             position == (charCode * idx) % embeddingLength
         IN  fallbackCharsUnshifted(addAt(nz, position, 60 \div (i + 1)), word, idx, i + 1)

RECURSIVE fallbackChars(_, _, _, _)
\* The for loop of generateFallbackEmbedding over the characters of word idx
fallbackChars(nz, word, idx, i) ==
    IF i >= Len(word) THEN nz
    ELSE LET charCode == At(word, i)
             position == (charCode * (idx + 1)) % embeddingLength
         IN  fallbackChars(addAt(nz, position, 60 \div (i + 1)), word, idx, i + 1)

RECURSIVE fallbackWords(_, _, _)
fallbackWords(nz, words, idx) ==
    IF idx >= Len(words) THEN nz
    ELSE fallbackWords(fallbackChars(nz, At(words, idx), idx, 0), words, idx + 1)

\* TransformersAIService.generateFallbackEmbedding(text)
generateFallbackEmbedding(text) ==
    normalize(fallbackWords(<<>>, split(toLowerCase(text)), 0))

RECURSIVE simpleChars(_, _, _, _)
\* The for loop of generateSimpleEmbedding over the characters of word idx
simpleChars(nz, word, idx, i) ==
    IF i >= Len(word) THEN nz
    ELSE LET charCode == At(word, i)
             position == (charCode * (idx + 1)) % embeddingLength
         IN  simpleChars(addAt(nz, position, 60 \div (i + 1)), word, idx, i + 1)

RECURSIVE simpleWords(_, _, _)
simpleWords(nz, words, idx) ==
    IF idx >= Len(words) THEN nz
    ELSE simpleWords(simpleChars(nz, At(words, idx), idx, 0), words, idx + 1)

\* MusicKnowledgeBase.generateSimpleEmbedding(text)
generateSimpleEmbedding(text) ==
    normalize(simpleWords(<<>>, split(toLowerCase(text)), 0))

\* The cosine over the shared indices, whatever the two lengths
cosineSimilarityAnyLength(vec1, vec2) ==
    LET shared     == DOMAIN vec1.nz \cap DOMAIN vec2.nz
        dotProduct == SumOver([p \in shared |-> vec1.nz[p] * vec2.nz[p]], shared)
        magnitude  == Sqrt(sumOfSquares(vec1.nz)) * Sqrt(sumOfSquares(vec2.nz))
    IN  IF magnitude > 0 THEN (100 * dotProduct) \div magnitude ELSE 0

\* cosineSimilarity(vec1, vec2) in hundredths.  With s1 and s2 the divisors of
\* the two vectors (their magnitude when unit, else 1), dotProduct is
\* dot / (s1 * s2) and magnitude is m1 * m2 / (s1 * s2): the divisors cancel
\* in the quotient and the magnitude is positive exactly when m1 * m2 is.
cosineSimilarity(vec1, vec2) ==
    IF vec1.length # vec2.length THEN 0
    ELSE LET shared     == DOMAIN vec1.nz \cap DOMAIN vec2.nz
             dotProduct == SumOver([p \in shared |-> vec1.nz[p] * vec2.nz[p]], shared)
             magnitude  == Sqrt(sumOfSquares(vec1.nz)) * Sqrt(sumOfSquares(vec2.nz))
         IN  IF magnitude > 0 THEN (100 * dotProduct) \div magnitude ELSE 0

-----------------------------------------------------------------------------
(* MusicKnowledgeBase                                                        *)

\* Catalog size (30 in createTheoryRules)
MaxRules == 6

\* The description of the k-th rule: "a b c d", "a c b d", "d a c a" or "a",
\* one-letter words, so that every rule embedding has an integer magnitude;
\* rules 2, 3 and 5 share one description
RuleDescription(k) ==
    CASE k = 1 -> <<97, 32, 98, 32, 99, 32, 100>>
      [] k = 4 -> <<97, 32, 99, 32, 98, 32, 100>>
      [] k = 6 -> <<100, 32, 97, 32, 99, 32, 97>>
      [] OTHER -> <<97>>

\* createTheoryRules(): the rules as authored, without embedding or similarity
createTheoryRules ==
    [k \in 1..MaxRules |->
        [id |-> k, description |-> RuleDescription(k),
         hasEmbedding |-> FALSE, embedding |-> EmptyVector,
         hasSimilarity |-> FALSE, similarity |-> 0]]

\* The catalog after the loop of initialize()
withSimpleEmbeddings(catalog) ==
    [k \in 1..Len(catalog) |->
        [catalog[k] EXCEPT !.hasEmbedding = TRUE,
                           !.embedding = generateSimpleEmbedding(catalog[k].description)]]

\* rule.embedding || []
embeddingOrEmpty(rule) == IF rule.hasEmbedding THEN rule.embedding ELSE EmptyVector

\* this.rules.map(rule => ({rule, similarity: cosineSimilarity(query, rule.embedding || [])}))
scoreRules(catalog, queryEmbedding) ==
    [k \in 1..Len(catalog) |->
        [rule |-> catalog[k],
         similarity |-> cosineSimilarity(queryEmbedding, embeddingOrEmpty(catalog[k]))]]

\* The comparator with its operands exchanged
compareScoredAscending(a, b) == a.similarity - b.similarity

\* The comparator of scored.sort: negative when a goes before b
compareScored(a, b) == b.similarity - a.similarity

\* One insertion of a stable sort: x goes behind every element that does not
\* compare after it
insertScored(sorted, x) ==
    LET later == {k \in 1..Len(sorted) : compareScored(x, sorted[k]) < 0}
        at    == IF later = {} THEN Len(sorted) + 1 ELSE Min(later)
    IN  SubSeq(sorted, 1, at - 1) \o <<x>> \o SubSeq(sorted, at, Len(sorted))

RECURSIVE sortScored(_)
\* Array.prototype.sort (stable) under compareScored
sortScored(scored) ==
    IF scored = <<>> THEN <<>>
    ELSE insertScored(sortScored(SubSeq(scored, 1, Len(scored) - 1)), scored[Len(scored)])

\* MusicKnowledgeBase.searchRules(queryEmbedding, topK)
searchRules(catalog, queryEmbedding, topK) ==
    LET top == Slice(sortScored(scoreRules(catalog, queryEmbedding)), 0, topK)
    IN  [k \in 1..Len(top) |->
            [top[k].rule EXCEPT !.hasSimilarity = TRUE, !.similarity = top[k].similarity]]

\* The similarity written on the rules of the catalog themselves
rulesAfterSearchAnnotated(catalog, queryEmbedding, topK) ==
    [k \in 1..Len(catalog) |->
        [catalog[k] EXCEPT !.hasSimilarity = TRUE,
                           !.similarity = cosineSimilarity(queryEmbedding,
                                                           embeddingOrEmpty(catalog[k]))]]

\* this.rules after searchRules: map, sort, slice and the object spread build
\* new arrays and new objects, no rule of the catalog is written
rulesAfterSearch(catalog, queryEmbedding, topK) == catalog

\* MusicKnowledgeBase.updateRuleEmbedding(ruleId, embedding) on the catalog
updateRuleEmbedding(catalog, ruleId, embedding) ==
    LET rule == FirstIndex({k \in 1..Len(catalog) : catalog[k].id = ruleId})
    IN  IF rule # 0
        THEN [catalog EXCEPT ![rule].hasEmbedding = TRUE, ![rule].embedding = embedding]
        ELSE catalog

\* initialize() without its isInitialized guard
KnowledgeBaseInitializeUnguarded ==
    /\ rules' = withSimpleEmbeddings(createTheoryRules)
    /\ embeddingRuns' = embeddingRuns + Len(createTheoryRules)
    /\ isInitialized' = TRUE

\* MusicKnowledgeBase.initialize(), which has no await inside and so runs in one step
KnowledgeBaseInitialize ==
    IF isInitialized
    THEN UNCHANGED kb
    ELSE /\ rules' = withSimpleEmbeddings(createTheoryRules)
         /\ embeddingRuns' = embeddingRuns + Len(createTheoryRules)
         /\ isInitialized' = TRUE

-----------------------------------------------------------------------------
(* Service state and lazy model loading                                     *)

NoAnalysis == [isNull |-> TRUE, relationships |-> <<>>]

Analysis(rels) == [isNull |-> FALSE, relationships |-> rels]

InitialStatus == [isLoading |-> FALSE, progress |-> 0, currentModel |-> "", error |-> "null"]

\* What can happen while loading: the pipeline loads, the pipeline import or
\* download throws (inner catch), or the knowledge base step throws before
\* the catalog is built (outer catch).
LoadOutcomes == {"loaded", "modelFailed", "knowledgeBaseFailed"}

\* The catch block of initializeModels rethrowing instead of marking the
\* service loaded
InitializeModelsRethrowing ==
    IF isModelLoaded
    THEN UNCHANGED <<service, kb>>
    ELSE \E outcome \in LoadOutcomes :
            /\ IF outcome = "knowledgeBaseFailed" THEN UNCHANGED kb ELSE KnowledgeBaseInitialize
            /\ isModelLoaded' = (outcome # "knowledgeBaseFailed")
            /\ loadLog' = Append(loadLog, outcome)
            /\ embeddingModel' = IF outcome = "loaded" THEN "pipeline" ELSE embeddingModel
            /\ loadingStatus' =
                   IF outcome = "knowledgeBaseFailed"
                   THEN [isLoading |-> TRUE, progress |-> 10,
                         currentModel |-> "Loading music theory knowledge base...",
                         error |-> loadingStatus.error]
                   ELSE [isLoading |-> FALSE, progress |-> 100,
                         currentModel |-> "Ready", error |-> loadingStatus.error]

\* The early return taken only when an embedding model is there
InitializeModelsRetrying ==
    IF isModelLoaded /\ embeddingModel # "null"
    THEN UNCHANGED <<service, kb>>
    ELSE \E outcome \in LoadOutcomes :
            /\ IF outcome = "knowledgeBaseFailed" THEN UNCHANGED kb ELSE KnowledgeBaseInitialize
            /\ isModelLoaded' = TRUE
            /\ loadLog' = Append(loadLog, outcome)
            /\ embeddingModel' = IF outcome = "loaded" THEN "pipeline" ELSE embeddingModel
            /\ loadingStatus' =
                   IF outcome = "knowledgeBaseFailed"
                   THEN [isLoading |-> FALSE, progress |-> 10,
                         currentModel |-> "Failed to load", error |-> "Error"]
                   ELSE [isLoading |-> FALSE, progress |-> 100,
                         currentModel |-> "Ready", error |-> loadingStatus.error]

\* initializeModels(), awaited first by every public operation, when no
\* other call of it is under way: the whole body in one step
InitializeModels ==
    IF isModelLoaded
    THEN UNCHANGED <<service, kb>>
    ELSE \E outcome \in LoadOutcomes :
            /\ IF outcome = "knowledgeBaseFailed" THEN UNCHANGED kb ELSE KnowledgeBaseInitialize
            /\ isModelLoaded' = TRUE
            /\ loadLog' = Append(loadLog, outcome)
            /\ embeddingModel' = IF outcome = "loaded" THEN "pipeline" ELSE embeddingModel
            /\ loadingStatus' =
                   IF outcome = "knowledgeBaseFailed"
                   THEN [isLoading |-> FALSE, progress |-> 10,
                         currentModel |-> "Failed to load", error |-> "Error"]
                   ELSE [isLoading |-> FALSE, progress |-> 100,
                         currentModel |-> "Ready", error |-> loadingStatus.error]

\* The try block left without a catch
generateEmbeddingUncaught(model, text, run) ==
    IF model = "null" THEN [raised |-> FALSE, value |-> generateFallbackEmbedding(text)]
    ELSE IF run.throws THEN [raised |-> TRUE, value |-> ZeroVector]
    ELSE [raised |-> FALSE, value |-> run.output]

\* generateEmbedding(text) with the given embeddingModel; run is what the
\* pipeline call does when there is one: it throws, or it yields output.data
generateEmbedding(model, text, run) ==
    IF model = "null" THEN [raised |-> FALSE, value |-> generateFallbackEmbedding(text)]
    ELSE IF run.throws THEN [raised |-> FALSE, value |-> generateFallbackEmbedding(text)]
    ELSE [raised |-> FALSE, value |-> run.output]

\* retrieveRelevantRules(query) once the query embedding is there
retrievedTopK == 5

\* calculateConfidence(rules), in 1/12000: 0.5 is 6000 and 1.0 is 12000, so
\* that 0.5 + (totalWeight / rules.length) * 0.5 is exact for similarities in
\* hundredths and up to 6 rules.  rule.similarity || 0.5 is 0.5 when the
\* similarity is missing or is 0.
calculateConfidence(relevantRules) ==
    IF Len(relevantRules) = 0 THEN 6000
    ELSE LET weight(rule) == IF rule.hasSimilarity /\ rule.similarity # 0
                             THEN rule.similarity ELSE 50
             totalWeight ==
                 SumOver([k \in 1..Len(relevantRules) |-> weight(relevantRules[k])],
                         1..Len(relevantRules))
         IN  6000 + (totalWeight * 60) \div Len(relevantRules)

\* enhanceStructuresWithKnowledge: queries[k] holds the description built
\* for the k-th structure and what the pipeline does when called with it
enhanceStructuresWithKnowledge(structures, queries, model, catalog) ==
    [k \in 1..Len(structures) |->
        LET queryEmbedding == generateEmbedding(model, queries[k].text, queries[k].run).value
            relevantRules  == searchRules(catalog, queryEmbedding, retrievedTopK)
        IN  [structures[k] EXCEPT !.confidence = calculateConfidence(relevantRules)]]

-----------------------------------------------------------------------------
(* inferEmotion                                                              *)

\* inferEmotion(features) once the models are initialised: features holds
\* rhythm.tempo, harmony.tension, harmony.tonality and texture.density, the
\* two fractions in hundredths
inferEmotion(features) ==
    LET tempo == features.tempo
        tension == features.tension
        density == features.density
    IN  [speed |-> IF tempo > 120 \/ density > 70 THEN "fast"
                   ELSE IF tempo < 80 \/ density < 30 THEN "slow"
                   ELSE "moderate",
         intensity |-> IF tempo > 110 /\ density > 50 THEN "strong"
                       ELSE IF tempo < 90 /\ density < 40 THEN "weak"
                       ELSE "moderate",
         tension |-> IF tension > 60 \/ features.tonality = "minor" THEN "tense"
                     ELSE IF tension < 40 /\ features.tonality = "major" THEN "relaxed"
                     ELSE "neutral"]

-----------------------------------------------------------------------------
(* recommendVisuals                                                          *)

shapes == <<"circle", "square", "triangle", "star", "wave", "diamond", "hexagon">>

animations == <<"flash", "rotate", "bounce", "scale", "slide">>

layouts == <<"horizontal", "circular", "vertical", "grid", "horizontal">>

\* preferences = undefined
NoPreferences ==
    [isNull |-> TRUE, shapePreferences |-> <<>>, animationPreferences |-> <<>>,
     colorPreferences |-> <<>>]

\* A UserPreferences snapshot: a weight map per kind of token (shape,
\* animation, color); a map is a function from the tokens acted on to weights
Preferences(shapeMap, animationMap, colorMap) ==
    [isNull |-> FALSE, shapePreferences |-> shapeMap, animationPreferences |-> animationMap,
     colorPreferences |-> colorMap]

NoStructureId == 0

getColorsForEmotion(emotion) ==
    IF emotion.speed = "fast" /\ emotion.intensity = "strong"
    THEN <<"#FF6B6B", "#FF8E53", "#FFA600", "#FF4757", "#FF6348">>
    ELSE IF emotion.speed = "slow" /\ emotion.intensity = "weak"
    THEN <<"#4ECDC4", "#45B7D1", "#96CEB4", "#74B9FF", "#81ECEC">>
    ELSE IF emotion.tension = "tense"
    THEN <<"#A04668", "#D84797", "#8E44AD", "#9B59B6", "#6C5CE7">>
    ELSE <<"#3498DB", "#2ECC71", "#F39C12", "#1ABC9C", "#E74C3C">>

\* prefs.get(a) || 0
WeightOf(prefs, a) == IF a \in DOMAIN prefs THEN prefs[a] ELSE 0

\* weightA - weightB: ascending instead of descending
CompareByWeightAscending(prefs, a, b) == WeightOf(prefs, a) - WeightOf(prefs, b)

\* The comparator handed to sort (negative: a goes first): weightB - weightA
CompareByWeight(prefs, a, b) == WeightOf(prefs, b) - WeightOf(prefs, a)

\* Array.prototype.sort is stable: x goes before the first element that the
\* comparator orders strictly after it, behind every element it ties with.
InsertStable(prefs, sorted, x) ==
    LET after == {k \in 1..Len(sorted) : CompareByWeight(prefs, sorted[k], x) > 0}
        pos   == IF after = {} THEN Len(sorted) + 1 ELSE Min(after)
    IN  SubSeq(sorted, 1, pos - 1) \o <<x>> \o SubSeq(sorted, pos, Len(sorted))

RECURSIVE SortStable(_, _)
SortStable(prefs, items) ==
    IF items = <<>> THEN <<>>
    ELSE InsertStable(prefs, SortStable(prefs, SubSeq(items, 1, Len(items) - 1)),
                      items[Len(items)])

getPreferredItems(prefs, items) ==
    IF DOMAIN prefs = {} THEN items ELSE SortStable(prefs, items)

elementCount(structureLevel) ==
    IF structureLevel = "motive" THEN 1
    ELSE IF structureLevel = "phrase" \/ structureLevel = "sub_phrase" THEN 3 ELSE 3

\* Without a structureId the first relationship decides
structureTypeOfFirst(analysis, structureId) ==
    IF analysis.isNull \/ analysis.relationships = <<>> THEN "default"
    ELSE LET relationships == analysis.relationships
             Touches(r) == structureId = NoStructureId
                           \/ r.id1 = structureId \/ r.id2 = structureId
             rel == FirstIndex({k \in 1..Len(relationships) : Touches(relationships[k])})
         IN  IF rel # 0 THEN relationships[rel].type ELSE "default"

\* The relationship type recommendVisuals reads for structureId
structureTypeOf(analysis, structureId) ==
    IF ~analysis.isNull /\ structureId # NoStructureId
    THEN LET relationships == analysis.relationships
             Touches(r) == r.id1 = structureId \/ r.id2 = structureId
             rel == FirstIndex({k \in 1..Len(relationships) : Touches(relationships[k])})
         IN  IF rel # 0 THEN relationships[rel].type ELSE "default"
    ELSE "default"

shapeIndex(structureType, i, j) ==
    CASE structureType = "repeat"   -> i % Len(shapes)
      [] structureType = "contrast" -> (i * 2 + j) % Len(shapes)
      [] structureType = "similar"  -> (i + j) % Len(shapes)
      [] OTHER                      -> (i * 3 + j) % Len(shapes)

colorIndex(structureType, i, j) ==
    CASE structureType = "repeat"   -> j % 5
      [] structureType = "contrast" -> (i + j * 2) % 5
      [] structureType = "similar"  -> (i + j) % 5
      [] OTHER                      -> (j * 2) % 5

schemeCount == 5

\* 0.95 - Math.floor(i / 2) * 0.1: two schemes share a confidence
confidenceOfPaired(i) == 95 - (i \div 2) * 10

\* 0.95 - i * 0.05, in hundredths
confidenceOf(i) == 95 - i * 5

\* The loops that build the schemes from the palette, the relationship type
\* and the (re-ordered) candidate lists
buildSchemes(colors, structureType, preferredShapes, preferredAnimations, count) ==
    LET element(i, j) ==
            [id        |-> j + 1,
             type      |-> At(preferredShapes, shapeIndex(structureType, i, j)),
             color     |-> At(colors, colorIndex(structureType, i, j)),
             size      |-> 60 + j * 10,
             animation |-> [type     |-> At(preferredAnimations, j % Len(preferredAnimations)),
                            duration |-> 1000 + j * 200,
                            easing   |-> "ease-in-out"]]
        scheme(i) ==
            [id         |-> i + 1,
             elements   |-> [j1 \in 1..count |-> element(i, j1 - 1)],
             layout     |-> At(layouts, i),
             confidence |-> confidenceOf(i)]
    IN  [i1 \in 1..schemeCount |-> scheme(i1 - 1)]

\* As recommendVisuals, with the palette re-sorted by the color weights too
recommendVisualsColorPreferred(analysis, emotion, structureLevel, preferences, structureId) ==
    buildSchemes(IF ~preferences.isNull
                 THEN getPreferredItems(preferences.colorPreferences,
                                        getColorsForEmotion(emotion))
                 ELSE getColorsForEmotion(emotion),
                 structureTypeOf(analysis, structureId),
                 IF ~preferences.isNull
                 THEN getPreferredItems(preferences.shapePreferences, shapes) ELSE shapes,
                 IF ~preferences.isNull
                 THEN getPreferredItems(preferences.animationPreferences, animations)
                 ELSE animations,
                 elementCount(structureLevel))

recommendVisuals(analysis, emotion, structureLevel, preferences, structureId) ==
    buildSchemes(getColorsForEmotion(emotion),
                 structureTypeOf(analysis, structureId),
                 IF ~preferences.isNull
                 THEN getPreferredItems(preferences.shapePreferences, shapes) ELSE shapes,
                 IF ~preferences.isNull
                 THEN getPreferredItems(preferences.animationPreferences, animations)
                 ELSE animations,
                 elementCount(structureLevel))

-----------------------------------------------------------------------------
(* identifyForm                                                              *)

TypeError == "TypeError"

countOfType(relationships, type) ==
    Cardinality({k \in 1..Len(relationships) : relationships[k].type = type})

\* Only id1 the first and id2 the last structure
findFirstLastOrdered(relationships, structures) ==
    LET first == structures[1].id
        last  == structures[Len(structures)].id
        Joins(r) == r.id1 = first /\ r.id2 = last
    IN  FirstIndex({k \in 1..Len(relationships) : Joins(relationships[k])})

\* relationships.find(r => (r.id1 === first.id && r.id2 === last.id) ||
\*                         (r.id2 === first.id && r.id1 === last.id)); 0 when undefined
findFirstLast(relationships, structures) ==
    LET first == structures[1].id
        last  == structures[Len(structures)].id
        Joins(r) == (r.id1 = first /\ r.id2 = last) \/ (r.id2 = first /\ r.id1 = last)
    IN  FirstIndex({k \in 1..Len(relationships) : Joins(relationships[k])})

\* The guard on the structure count forgotten
ternaryAppliesUnguarded(repeatCount, structureCount) == repeatCount >= 2

\* structureCount < 4 instead of <= 4
binaryAppliesStrict(contrastCount, structureCount) ==
    structureCount < 4 /\ contrastCount >= 1

\* repeatCount >= 4 instead of >= 3
rondoAppliesFour(repeatCount, structureCount) == repeatCount >= 4 /\ structureCount >= 5

ternaryApplies(repeatCount, structureCount) == repeatCount >= 2 /\ structureCount >= 3

rondoApplies(repeatCount, structureCount) == repeatCount >= 3 /\ structureCount >= 5

binaryApplies(contrastCount, structureCount) == structureCount <= 4 /\ contrastCount >= 1

sonataApplies(repeatCount, contrastCount, structureCount) ==
    structureCount >= 8 /\ repeatCount >= 2 /\ contrastCount >= 2

\* Default based on structure count
defaultForm(structureCount) ==
    IF structureCount <= 2 THEN "Binary Form (AB)"
    ELSE IF structureCount <= 4 THEN "Ternary Form (ABA)"
    ELSE IF structureCount <= 6 THEN "Rondo Form"
    ELSE "Through-composed Form"

\* The result of identifyForm, TypeError when reading structures[0].id throws
identifyForm(analysis, structures) ==
    LET structureCount == Len(structures)
        relationships  == analysis.relationships
        repeatCount    == countOfType(relationships, "repeat")
        contrastCount  == countOfType(relationships, "contrast")
        tryTernary     == ternaryApplies(repeatCount, structureCount)
        firstLast      == findFirstLast(relationships, structures)
    IN  IF analysis.isNull THEN defaultForm(structureCount)
        ELSE IF tryTernary /\ relationships # <<>> /\ structureCount = 0 THEN TypeError
        ELSE IF tryTernary /\ firstLast # 0 /\ relationships[firstLast].type = "repeat"
             THEN "Ternary Form (ABA)"
        ELSE IF rondoApplies(repeatCount, structureCount) THEN "Rondo Form (ABACA)"
        ELSE IF binaryApplies(contrastCount, structureCount) THEN "Binary Form (AB)"
        ELSE IF sonataApplies(repeatCount, contrastCount, structureCount) THEN "Sonata Form"
        ELSE defaultForm(structureCount)

-----------------------------------------------------------------------------
(* analyzeSimilarity                                                         *)

groupLabels == <<"A", "B", "C", "D", "E">>

minGroupedStructures == 4

\* similarity >= 0.6 instead of > 0.6
isStrongRelationInclusive(r) ==
    r.type = "repeat" \/ (r.type = "similar" /\ r.similarity >= 60)

isStrongRelation(r) == r.type = "repeat" \/ (r.type = "similar" /\ r.similarity > 60)

\* One iteration of the loop over strongRelations; the loop state is
\* [groups, assigned, groupIndex]
groupStep(st, rel) ==
    IF rel.id1 \in st.assigned /\ rel.id2 \in st.assigned THEN st
    ELSE LET groupId  == At(groupLabels, st.groupIndex % Len(groupLabels))
             ids1     == IF rel.id1 \notin st.assigned THEN <<rel.id1>> ELSE <<>>
             assigned1 == st.assigned \cup Range(ids1)
             ids2     == IF rel.id2 \notin assigned1 THEN Append(ids1, rel.id2) ELSE ids1
             assigned2 == assigned1 \cup Range(ids2)
         IN  IF Len(ids2) > 0
             THEN [groups     |-> Append(st.groups,
                                         [groupId         |-> groupId,
                                          structureIds    |-> ids2,
                                          similarityScore |-> rel.similarity,
                                          commonFeatures  |-> <<rel.description>>]),
                   assigned   |-> assigned2,
                   groupIndex |-> st.groupIndex + 1]
             ELSE [st EXCEPT !.assigned = assigned2]

RECURSIVE groupLoop(_, _)
groupLoop(st, rels) ==
    IF rels = <<>> THEN st ELSE groupLoop(groupStep(st, Head(rels)), Tail(rels))

groupByRelationships(structures, relationships) ==
    LET strongRelations == SelectSeq(relationships, isStrongRelation)
    IN  groupLoop([groups |-> <<>>, assigned |-> {}, groupIndex |-> 0], strongRelations).groups

positionFeatures == <<"similar melodic contour", "parallel rhythmic pattern">>

\* One iteration of the loop of groupByPosition for window i; random is the
\* sequence of Math.random() samples, consumed one per pushed group, each k
\* standing for k/20 so that 0.75 + random * 0.2 is 75 + k hundredths
positionStep(structures, groups, i, random) ==
    LET groupSize == Len(structures) \div 3
        startIdx  == i * groupSize
        endIdx    == MinOf(startIdx + groupSize + 1, Len(structures))
        groupStructures == Slice(structures, startIdx, endIdx)
    IN  IF Len(groupStructures) >= 2
        THEN Append(groups,
                    [groupId         |-> At(groupLabels, i),
                     structureIds    |-> [k \in 1..Len(groupStructures) |-> groupStructures[k].id],
                     similarityScore |-> 75 + random[Len(groups) + 1],
                     commonFeatures  |-> positionFeatures])
        ELSE groups

RECURSIVE positionLoop(_, _, _, _)
positionLoop(structures, groups, i, random) ==
    \* i < Math.min(3, structures.length / 2)
    IF i < 3 /\ 2 * i < Len(structures)
    THEN positionLoop(structures, positionStep(structures, groups, i, random), i + 1, random)
    ELSE groups

groupByPosition(structures, random) == positionLoop(structures, <<>>, 0, random)

\* The size check made on the fallback path only
analyzeSimilarityLateCheck(analysis, structures, random) ==
    IF ~analysis.isNull THEN groupByRelationships(structures, analysis.relationships)
    ELSE IF Len(structures) < minGroupedStructures THEN <<>>
    ELSE groupByPosition(structures, random)

\* The fallback taken also when the recorded analysis has no relationship
analyzeSimilarityEmptyFallback(analysis, structures, random) ==
    IF Len(structures) < minGroupedStructures THEN <<>>
    ELSE IF ~analysis.isNull /\ analysis.relationships # <<>>
    THEN groupByRelationships(structures, analysis.relationships)
    ELSE groupByPosition(structures, IF random = <<>> THEN <<0, 0, 0>> ELSE random)

analyzeSimilarity(analysis, structures, random) ==
    IF Len(structures) < minGroupedStructures THEN <<>>
    ELSE IF ~analysis.isNull THEN groupByRelationships(structures, analysis.relationships)
    ELSE groupByPosition(structures, random)

-----------------------------------------------------------------------------
(* recognizeEmotions                                                         *)
(*                                                                           *)
(* A pitch is the sequence of the character codes of its string: "C4" is     *)
(* <<67, 52>>, "Bb3" is <<66, 98, 51>>.  A feature is a JavaScript number    *)
(* kept exact as the fraction num / den with den > 0, or NaN (0 / 0).        *)

isDigit(c) == c \in 48..57

\* The groups of pitch.match(/^([A-G])(#|b)?(\d+)?$/): an absent group is <<>>
pitchMatch(pitch) ==
    IF Len(pitch) = 0 \/ pitch[1] \notin 65..71
    THEN [matched |-> FALSE, note |-> 0, accidental |-> <<>>, octave |-> <<>>]
    ELSE LET rest == Tail(pitch)
             hasAccidental == Len(rest) > 0 /\ rest[1] \in {35, 98}
             digits == IF hasAccidental THEN Tail(rest) ELSE rest
         IN  [matched |-> \A k \in 1..Len(digits) : isDigit(digits[k]),
              note |-> pitch[1],
              accidental |-> IF hasAccidental THEN <<rest[1]>> ELSE <<>>,
              octave |-> digits]

RECURSIVE parseInt(_)
\* parseInt on a string of decimal digits
parseInt(digits) ==
    IF Len(digits) = 0 THEN 0
    ELSE 10 * parseInt(SubSeq(digits, 1, Len(digits) - 1)) + (digits[Len(digits)] - 48)

\* noteMap, by the character code of the letter: C D E F G A B
noteMap == 67 :> 0 @@ 68 :> 2 @@ 69 :> 4 @@ 70 :> 5 @@ 71 :> 7 @@ 65 :> 9 @@ 66 :> 11

\* pitchToNumber(pitch)
pitchToNumber(pitch) ==
    LET match == pitchMatch(pitch)
    IN  IF ~match.matched THEN 60
        ELSE noteMap[match.note]
             + parseInt(IF match.octave = <<>> THEN <<52>> ELSE match.octave) * 12
             + (IF match.accidental = <<35>> THEN 1 ELSE 0)
             - (IF match.accidental = <<98>> THEN 1 ELSE 0)

NaN == [isNaN |-> TRUE, num |-> 0, den |-> 1]

Ratio(num, den) == [isNaN |-> FALSE, num |-> num, den |-> den]

\* x > a / b and x < a / b on numbers; every comparison with NaN is false
GreaterThan(x, a, b) == ~x.isNaN /\ x.num * b > a * x.den

LessThan(x, a, b) == ~x.isNaN /\ x.num * b < a * x.den

\* Math.min(1, x) and Math.max(0, x); NaN stays NaN
AtMostOne(x) == IF GreaterThan(x, 1, 1) THEN Ratio(1, 1) ELSE x

AtLeastZero(x) == IF LessThan(x, 0, 1) THEN Ratio(0, 1) ELSE x

\* notes.length / measureCount / 10: 0 / 0 is NaN, n / 0 is Infinity, which
\* Math.min(1, ...) caps like any number above 1
noteDensityTenth(count, measureCount) ==
    IF measureCount = 0 THEN (IF count = 0 THEN NaN ELSE Ratio(2, 1))
    ELSE IF measureCount > 0 THEN Ratio(count, 10 * measureCount)
    ELSE Ratio(0 - count, 10 * (0 - measureCount))

\* structure.notes || []
notesOf(structure) == IF structure.hasNotes THEN structure.notes ELSE <<>>

\* Math.abs(pitches[i] - pitches[i-1]) for i = 1 .. length - 1
intervalsOf(pitches) ==
    [i \in 1..(Len(pitches) - 1) |->
        IF pitches[i + 1] >= pitches[i] THEN pitches[i + 1] - pitches[i]
        ELSE pitches[i] - pitches[i + 1]]

\* extractStructureFeatures(structure)
extractStructureFeatures(structure) ==
    LET notes == notesOf(structure)
        measureCount == structure.endMeasure - structure.startMeasure + 1
        pitches == [k \in 1..Len(notes) |-> pitchToNumber(notes[k].pitch)]
        total == SumOver(pitches, 1..Len(pitches))
        avgPitch == IF Len(pitches) > 0 THEN Ratio(total, Len(pitches)) ELSE Ratio(60, 1)
        intervals == intervalsOf(pitches)
    IN  [energy |-> AtMostOne(noteDensityTenth(Len(notes), measureCount)),
         brightness |-> AtMostOne(AtLeastZero(
                            Ratio(avgPitch.num - 48 * avgPitch.den, 36 * avgPitch.den))),
         tension |-> IF Len(pitches) > 1
                     THEN AtMostOne(Ratio(SumOver(intervals, 1..Len(intervals)),
                                          12 * Len(intervals)))
                     ELSE Ratio(1, 2)]

emotionTypes == <<"happy", "sad", "excited", "peaceful", "tense">>

\* The position-based default with another fixed confidence
emotionBranchLowDefault(features, i) ==
    IF GreaterThan(features.energy, 7, 10) /\ GreaterThan(features.brightness, 6, 10)
    THEN [primary |-> "excited", confidence |-> 85]
    ELSE IF GreaterThan(features.energy, 5, 10) /\ GreaterThan(features.brightness, 5, 10)
    THEN [primary |-> "happy", confidence |-> 80]
    ELSE IF LessThan(features.energy, 3, 10) /\ LessThan(features.brightness, 4, 10)
    THEN [primary |-> "sad", confidence |-> 75]
    ELSE IF LessThan(features.energy, 4, 10) /\ GreaterThan(features.brightness, 5, 10)
    THEN [primary |-> "peaceful", confidence |-> 80]
    ELSE IF GreaterThan(features.tension, 6, 10)
    THEN [primary |-> "tense", confidence |-> 75]
    ELSE [primary |-> At(emotionTypes, i % Len(emotionTypes)), confidence |-> 50]

\* The tension rule tried before the energy and brightness rules
emotionBranchTensionFirst(features, i) ==
    IF GreaterThan(features.tension, 6, 10)
    THEN [primary |-> "tense", confidence |-> 75]
    ELSE IF GreaterThan(features.energy, 7, 10) /\ GreaterThan(features.brightness, 6, 10)
    THEN [primary |-> "excited", confidence |-> 85]
    ELSE IF GreaterThan(features.energy, 5, 10) /\ GreaterThan(features.brightness, 5, 10)
    THEN [primary |-> "happy", confidence |-> 80]
    ELSE IF LessThan(features.energy, 3, 10) /\ LessThan(features.brightness, 4, 10)
    THEN [primary |-> "sad", confidence |-> 75]
    ELSE IF LessThan(features.energy, 4, 10) /\ GreaterThan(features.brightness, 5, 10)
    THEN [primary |-> "peaceful", confidence |-> 80]
    ELSE [primary |-> At(emotionTypes, i % Len(emotionTypes)), confidence |-> 70]

\* The ordered threshold rules of recognizeEmotions for the structure at
\* index i, confidence in hundredths
emotionBranch(features, i) ==
    IF GreaterThan(features.energy, 7, 10) /\ GreaterThan(features.brightness, 6, 10)
    THEN [primary |-> "excited", confidence |-> 85]
    ELSE IF GreaterThan(features.energy, 5, 10) /\ GreaterThan(features.brightness, 5, 10)
    THEN [primary |-> "happy", confidence |-> 80]
    ELSE IF LessThan(features.energy, 3, 10) /\ LessThan(features.brightness, 4, 10)
    THEN [primary |-> "sad", confidence |-> 75]
    ELSE IF LessThan(features.energy, 4, 10) /\ GreaterThan(features.brightness, 5, 10)
    THEN [primary |-> "peaceful", confidence |-> 80]
    ELSE IF GreaterThan(features.tension, 6, 10)
    THEN [primary |-> "tense", confidence |-> 75]
    ELSE [primary |-> At(emotionTypes, i % Len(emotionTypes)), confidence |-> 70]

\* Math.round(confidence * 100) / 100 on a confidence c / 100: the product is
\* within one ulp of the integer c, which Math.round returns
roundToHundredths(c) == ((2 * c + 1) \div 2)

featureMap ==
    [happy |-> <<"major tonality", "bright timbre", "moderate tempo", "ascending melody">>,
     sad |-> <<"minor tonality", "dark timbre", "slow tempo", "descending melody">>,
     excited |-> <<"fast tempo", "strong dynamics", "frequent changes", "high energy">>,
     peaceful |-> <<"slow tempo", "soft dynamics", "consonant harmony", "smooth flow">>,
     tense |-> <<"dissonant harmony", "strong contrasts", "unstable tonality",
                 "irregular rhythm">>]

\* getEmotionFeatureDescriptions(emotion)
getEmotionFeatureDescriptions(emotion) ==
    IF emotion \in DOMAIN featureMap THEN featureMap[emotion] ELSE <<"neutral features">>

\* recognizeEmotions(structures, audioData) once the models are initialised;
\* audioData is not read
recognizeEmotions(structures) ==
    [k \in 1..Len(structures) |->
        LET branch == emotionBranch(extractStructureFeatures(structures[k]), k - 1)
        IN  [structureId |-> structures[k].id,
             primary |-> branch.primary,
             confidence |-> roundToHundredths(branch.confidence),
             features |-> getEmotionFeatureDescriptions(branch.primary)]]

-----------------------------------------------------------------------------
(* generateStructureDescription                                              *)
(*                                                                           *)
(* A note is its pitch string (character codes) and its duration in          *)
(* hundredths; musicData.measures is a sequence of measures, each the        *)
(* sequence of its notes.  The description, a template string, is kept as    *)
(* the record of the parts the template is filled with.                      *)

RECURSIVE flatMapNotes(_)
\* measures.flatMap(m => m.notes)
flatMapNotes(measures) ==
    IF measures = <<>> THEN <<>> ELSE Head(measures) \o flatMapNotes(Tail(measures))

\* detectContour(pitches)
detectContour(pitches) ==
    IF Len(pitches) < 2 THEN "stable"
    ELSE LET pitchNumbers == [k \in 1..Len(pitches) |-> pitchToNumber(pitches[k])]
             ascending == Cardinality({i \in 2..Len(pitches) :
                                          pitchNumbers[i] > pitchNumbers[i - 1]})
             descending == Cardinality({i \in 2..Len(pitches) :
                                           pitchNumbers[i] < pitchNumbers[i - 1]})
         IN  IF 2 * ascending > 3 * descending THEN "ascending"
             ELSE IF 2 * descending > 3 * ascending THEN "descending"
             ELSE "wave"

\* count after the inner loop of detectRepetition: the windows at the start
\* indices 0, patternLen, 2 * patternLen, ... that equal the first window
countAligned(pitches, patternLen) ==
    Cardinality({i \in 0..(Len(pitches) - patternLen) :
                    /\ i % patternLen = 0
                    /\ Slice(pitches, i, i + patternLen) = Slice(pitches, 0, patternLen)})

\* detectRepetition(pitches)
detectRepetition(pitches) ==
    IF Len(pitches) < 4 THEN FALSE
    ELSE \E patternLen \in 2..4 : countAligned(pitches, patternLen) >= 2

\* durations.reduce((a, b) => a + b, 0) / durations.length || 1 compared with
\* 0.5 and 1.5: 0 / 0 and 0 are falsy and give 1
tempoOf(durations) ==
    LET total == SumOver(durations, 1..Len(durations))
    IN  IF Len(durations) = 0 \/ total = 0 THEN "moderate"
        ELSE IF 2 * total < 100 * Len(durations) THEN "fast"
        ELSE IF 2 * total > 300 * Len(durations) THEN "slow"
        ELSE "moderate"

\* generateStructureDescription(structure, musicData)
generateStructureDescription(structure, measures) ==
    LET notes == flatMapNotes(Slice(measures, structure.startMeasure - 1, structure.endMeasure))
        pitches == [k \in 1..Len(notes) |-> notes[k].pitch]
        durations == [k \in 1..Len(notes) |-> notes[k].duration]
    IN  [startMeasure |-> structure.startMeasure,
         endMeasure |-> structure.endMeasure,
         tempo |-> tempoOf(durations),
         contour |-> detectContour(pitches),
         withRepetitivePatterns |-> detectRepetition(pitches)]

-----------------------------------------------------------------------------
(* User store and PreferenceLearner                                          *)
(*                                                                           *)
(* The store (src/src/stores/user.ts) hands every action to its              *)
(* PreferenceLearner, whose source is not part of the sources at hand: the   *)
(* learner is written after its description.  A weight table is a function  *)
(* from the tokens that have been acted on to weights in halves; a user      *)
(* action is its type and the set of tokens it is about.                     *)

\* The reward of an action, in halves: +1, +0.5, -1
reward(type) ==
    CASE type = "accept" -> 2
      [] type = "modify" -> 1
      [] type = "reject" -> -2

\* PreferenceLearner.recordAction(action) on the table
recordAction(table, action) ==
    [token \in DOMAIN table \cup action.tokens |->
        (IF token \in DOMAIN table THEN table[token] ELSE 0)
        + (IF token \in action.tokens THEN reward(action.type) ELSE 0)]

\* PreferenceLearner.clearPreferences()
clearedPreferences == <<>>

-----------------------------------------------------------------------------
(* Inputs                                                                    *)

MaxRecRels == 2     \* relationships per analysis, recommender runs

MaxFormRels == 5    \* relationships per analysis, form runs

MaxSimRels == 6     \* relationships per analysis, grouping runs

MaxStructs == 9     \* largest structure id, and longest structures argument

MaxStart == 2       \* largest id of the first structure of an argument

Rel(id1, id2, type, similarity) ==
    [id1 |-> id1, id2 |-> id2, type |-> type, similarity |-> similarity,
     description |-> <<type, id1, id2>>]

\* Relationship: produced once per structure pair
OncePerPair(rels) ==
    \A k1, k2 \in 1..Len(rels) :
        k1 # k2 => {rels[k1].id1, rels[k1].id2} # {rels[k2].id1, rels[k2].id2}

\* The relationship lists of length <= n whose k-th relationship is one of options[k]
RECURSIVE RelationshipLists(_, _)
RelationshipLists(options, n) ==
    IF n = 0 THEN {<<>>}
    ELSE LET shorter == RelationshipLists(options, n - 1)
         IN  shorter \cup {Append(rels, r) : rels \in {x \in shorter : Len(x) = n - 1},
                                             r \in options[n]}

AnalysesOver(options) ==
    {Analysis(rels) : rels \in {x \in RelationshipLists(options, Len(options)) : OncePerPair(x)}}

RecOptions(k) ==
    CASE k = 1 -> {Rel(1, 2, "repeat", 90), Rel(1, 2, "contrast", 20),
                   Rel(1, 2, "similar", 70), Rel(1, 2, "transition", 50)}
      [] k = 2 -> {Rel(2, 3, "contrast", 20), Rel(3, 1, "repeat", 85)}
      [] OTHER -> {Rel(k + 1, k, "transition", 50)}

FormOptions(k) ==
    CASE k = 1 -> {Rel(1, 2, "repeat", 90), Rel(1, 2, "contrast", 20)}
      [] k = 2 -> {Rel(2, 3, "contrast", 20), Rel(2, 3, "repeat", 90)}
      [] k = 3 -> {Rel(3, 4, "repeat", 85), Rel(4, 1, "repeat", 85), Rel(1, 4, "contrast", 30)}
      [] k = 4 -> {Rel(1, 8, "repeat", 95), Rel(8, 1, "repeat", 95), Rel(1, 8, "contrast", 10)}
      [] k = 5 -> {Rel(5, 6, "repeat", 90), Rel(5, 6, "contrast", 20)}
      [] OTHER -> {Rel(k + 1, k, "contrast", 20)}

SimOptions(k) ==
    CASE k = 1 -> {Rel(1, 2, "repeat", 90), Rel(1, 2, "similar", 60)}
      [] k = 2 -> {Rel(2, 3, "contrast", 20), Rel(2, 3, "similar", 70)}
      [] k = 3 -> {Rel(3, 4, "repeat", 85), Rel(1, 3, "repeat", 80)}
      [] k = 4 -> {Rel(4, 5, "similar", 61), Rel(4, 2, "repeat", 95)}
      [] k = 5 -> {Rel(5, 6, "repeat", 90)}
      [] k = 6 -> {Rel(6, 7, "repeat", 88), Rel(6, 8, "similar", 75)}
      [] OTHER -> {Rel(k + 1, k, "similar", 70)}

RecAnalyses == AnalysesOver([k \in 1..MaxRecRels |-> RecOptions(k)])

FormAnalyses == AnalysesOver([k \in 1..MaxFormRels |-> FormOptions(k)])

SimAnalyses == AnalysesOver([k \in 1..MaxSimRels |-> SimOptions(k)])

DetAnalyses ==
    {Analysis(<<Rel(1, 2, "repeat", 90)>>),
     Analysis(<<Rel(1, 2, "contrast", 20), Rel(2, 3, "similar", 70)>>)}

MaxEmo == 6         \* structures per recognizeEmotions call

\* count notes whose pitches alternate between the strings p and q
NotesAlternating(count, p, q) == [k \in 1..count |-> [pitch |-> IF k % 2 = 1 THEN p ELSE q]]

ScoredStructure(id, startMeasure, endMeasure, notes) ==
    [id |-> id, startMeasure |-> startMeasure, endMeasure |-> endMeasure,
     hasNotes |-> TRUE, notes |-> notes]

\* Four C5 in one measure: no threshold rule applies
PlainStructure(id) == ScoredStructure(id, 1, 1, NotesAlternating(4, <<67, 53>>, <<67, 53>>))

\* No notes and startMeasure = endMeasure + 1: a note density of 0 / 0
EmptySpanStructure(id) == ScoredStructure(id, 3, 2, <<>>)

\* The structures at index k - 1 of a recognizeEmotions argument.  Pitches:
\* "C4" <<67, 52>>, "C5" <<67, 53>>, "C6" <<67, 54>>, "G5" <<71, 53>>,
\* "F#10" <<70, 35, 49, 48>>, "Bb3" <<66, 98, 51>>, "A" <<65>>, and the
\* strings "H2" <<72, 50>> and "" that the pattern does not match
EmoOptions(k) ==
    CASE k = 1 ->
            {ScoredStructure(k, 1, 1, NotesAlternating(8, <<67, 54>>, <<67, 54>>)),
             ScoredStructure(k, 1, 1, NotesAlternating(7, <<67, 54>>, <<67, 54>>)),
             ScoredStructure(k, 1, 1, NotesAlternating(6, <<71, 53>>, <<71, 53>>)),
             ScoredStructure(k, 1, 1, NotesAlternating(2, <<67, 52>>, <<67, 52>>)),
             ScoredStructure(k, 1, 1, NotesAlternating(2, <<67, 54>>, <<67, 54>>)),
             ScoredStructure(k, 1, 1, NotesAlternating(4, <<67, 52>>, <<67, 54>>)),
             ScoredStructure(k, 1, 1, NotesAlternating(3, <<72, 50>>, <<>>)),
             ScoredStructure(k, 3, 2, NotesAlternating(2, <<70, 35, 49, 48>>, <<67, 54>>)),
             ScoredStructure(k, 5, 2, NotesAlternating(2, <<66, 98, 51>>, <<65>>)),
             [id |-> k, startMeasure |-> 1, endMeasure |-> 2, hasNotes |-> FALSE, notes |-> <<>>],
             PlainStructure(k),
             EmptySpanStructure(k)}
      [] k = 2 ->
            {ScoredStructure(k, 2, 2, NotesAlternating(8, <<67, 54>>, <<67, 54>>)),
             PlainStructure(k),
             EmptySpanStructure(k)}
      [] OTHER -> {PlainStructure(k)}

EmoStructureLists == RelationshipLists([k \in 1..MaxEmo |-> EmoOptions(k)], MaxEmo)

\* Arguments of inferEmotion
MusicFeatures ==
    [tempo : {60, 85, 100, 115, 130}, tension : {30, 50, 70},
     density : {20, 35, 45, 60, 80}, tonality : {"major", "minor", "atonal"}]

MaxActions == 3     \* user actions between two clearPreferences calls

\* User actions: what was done to a recommended scheme and the tokens (shape,
\* animation, color) concerned
UserActions ==
    [type : {"accept", "modify", "reject"},
     tokens : {{"circle"}, {"circle", "flash"}, {"flash", "#E74C3C"}}]

MaxNotes == 5       \* notes of a described score

\* Pitch strings of described scores: "C4", "D4", "E4"
ScorePitches == {<<67, 52>>, <<68, 52>>, <<69, 52>>}

PitchLists == UNION {[1..n -> ScorePitches] : n \in 0..MaxNotes}

\* A score of two notes per measure, all of one duration
MeasuresOf(pitches, duration) ==
    [m \in 1..((Len(pitches) + 1) \div 2) |->
        [k \in 1..(IF 2 * m <= Len(pitches) THEN 2 ELSE 1) |->
            [pitch |-> pitches[2 * (m - 1) + k], duration |-> duration]]]

\* The structure that runs from measure startMeasure to the end of a score
StructureFrom(startMeasure, measures) ==
    [id |-> 1, startMeasure |-> startMeasure, endMeasure |-> Len(measures)]

\* A score and the structure described in it
DescribedScore(pitches, duration, startMeasure) ==
    LET measures == MeasuresOf(pitches, duration)
    IN  [measures |-> measures, structure |-> StructureFrom(startMeasure, measures)]

\* Scores and the structure described in them: the whole score at moderate
\* note length, and short scores at other note lengths and from measure 2
DescribedScores ==
    {DescribedScore(pitches, 100, 1) : pitches \in PitchLists}
    \cup {DescribedScore(pitches, duration, startMeasure) :
             pitches \in {x \in PitchLists : Len(x) <= 1 \/ x = [k \in 1..MaxNotes |-> <<68, 52>>]},
             duration \in {0, 25, 200}, startMeasure \in {1, 2}}

MaxTasks == 2       \* callers whose calls may overlap
MaxInstances == 3   \* TransformersAIService objects constructed by the factory

Tasks == 1..MaxTasks

\* A caller that has not called anything yet
IdleTask ==
    [pc |-> "idle", op |-> "none", structures |-> <<>>, result |-> "none", overlapped |-> FALSE]

\* What MusicAnalysisEngine.analyzeMusicStructure makes of the score of a
\* caller: four structures and the relationships between them
ScoreAnalysis(t) ==
    CASE t = 1 -> Analysis(<<Rel(1, 2, "repeat", 90), Rel(1, 4, "repeat", 85)>>)
      [] t = 2 -> Analysis(<<Rel(1, 2, "contrast", 20), Rel(2, 3, "similar", 70)>>)
      [] OTHER -> Analysis(<<Rel(3, 4, "similar", 80)>>)

ScoreStructures(t) ==
    [k \in 1..4 |-> [id |-> k, confidence |-> 9600, level |-> "phrase",
                     startMeasure |-> 4 * k - 3, endMeasure |-> 4 * k]]

\* The structures S<a> .. S<b> in score order
Structures(a, b) == [k \in 1..(b - a + 1) |-> [id |-> a + k - 1]]

StructureLists ==
    {<<>>} \cup {Structures(a, b) : a \in 1..MaxStart, b \in 1..MaxStructs}

Emotions ==
    {[speed |-> "fast",     intensity |-> "strong",   tension |-> "tense"],
     [speed |-> "slow",     intensity |-> "weak",     tension |-> "tense"],
     [speed |-> "moderate", intensity |-> "strong",   tension |-> "tense"],
     [speed |-> "moderate", intensity |-> "moderate", tension |-> "neutral"]}

\* The emotion of the repeated recommendVisuals calls
FastStrongTense == [speed |-> "fast", intensity |-> "strong", tension |-> "tense"]

Levels == {"motive", "period"}

\* Preference snapshots: weights in halves, so an accepted token has 2, a
\* rejected one -2, a modified-and-kept one 1
SomePreferences ==
    Preferences("circle" :> -2, "flash" :> -2 @@ "slide" :> 2, "#2ECC71" :> 2)

PreferenceSnapshots ==
    {NoPreferences,
     Preferences(<<>>, <<>>, <<>>),
     SomePreferences,
     Preferences("star" :> 2 @@ "hexagon" :> 2, <<>>, "#E74C3C" :> -2),
     Preferences("wave" :> 1 @@ "square" :> 4 @@ "circle" :> -2 @@ "triangle" :> 0,
                 "slide" :> 2 @@ "bounce" :> 1, <<>>),
     Preferences("diamond" :> 3, "scale" :> 2 @@ "rotate" :> 2, "#F39C12" :> 1)}

StructureIdArgs == {NoStructureId, 1, 3}

\* The argument tuples of recommendVisuals: every emotion and level without
\* preferences and with one snapshot, and every snapshot for one emotion
RecommendArgs ==
    (Emotions \X Levels
        \X {NoPreferences, SomePreferences}
        \X StructureIdArgs)
    \cup ({[speed |-> "moderate", intensity |-> "moderate", tension |-> "neutral"]}
            \X Levels \X PreferenceSnapshots \X StructureIdArgs)

\* Math.random() samples, k standing for k/20
RandomSamples == {0, 19}

\* What the Math.random() calls of one analyzeSimilarity call can return: one
\* sample per position window, none when groupByPosition is not reached
RandomDraws(analysis, structures) ==
    IF analysis.isNull /\ Len(structures) >= minGroupedStructures
    THEN [1..3 -> RandomSamples] ELSE {<<>>}

\* A vector of another length than the embeddings: [3, 4]
ShortVector == [length |-> 2, nz |-> [p \in {0, 1} |-> 3 + p], unit |-> FALSE]

\* Encoder outputs: 384 components, unit norm
ModelVectors ==
    {UnitVector([p \in {97} |-> -1]),
     UnitVector([p \in {0, 1} |-> 3 + p]),
     UnitVector([p \in {97, 196} |-> IF p = 97 THEN 3 ELSE 4])}

\* What a call of the loaded pipeline can do
PipelineRuns ==
    {[throws |-> TRUE, output |-> ZeroVector]}
    \cup {[throws |-> FALSE, output |-> v] : v \in ModelVectors}

\* No pipeline call is made without a model
NoRun == [throws |-> FALSE, output |-> ZeroVector]

RunsWith(model) == IF model = "null" THEN {NoRun} ELSE PipelineRuns

\* The description and the pipeline run of each structure of a caller's score
ScoreQueries(t, model) ==
    [k \in 1..4 |-> [text |-> <<97, 32, 98, 32, 99, 32, 100>>,
                     run |-> IF model = "null" THEN NoRun
                             ELSE [throws |-> FALSE,
                                   output |-> UnitVector([p \in {97, 196} |->
                                                             IF p = 97 THEN 3 ELSE 4])]]]

\* Longest text
MaxTextLen == 3

\* The texts over "b", "A", "1" and the space
Texts == UNION {[1..n -> {98, 65, 49, 32}] : n \in 0..MaxTextLen}

\* Most structures in an analysis whose structures are enhanced
MaxEnhanced == 2

\* The structures an analysis reports: S1 .. Sn, periods of four measures
AnalysedStructures(n) ==
    [k \in 1..n |-> [id |-> k, level |-> "period", startMeasure |-> 4 * k - 3,
                     endMeasure |-> 4 * k, confidence |-> 9600]]

\* Descriptions standing for those generateStructureDescription builds: "a",
\* "a b c d" and "1" (none of whose dimensions a rule description has)
DescriptionTexts == {<<97>>, <<97, 32, 98, 32, 99, 32, 100>>, <<49>>}

\* The query of one structure: its description and, with a model, what the
\* pipeline does with it - it throws, or it yields a vector that points away
\* from the rules or towards some of them
QueriesWith(model) ==
    IF model = "null"
    THEN {[text |-> t, run |-> NoRun] : t \in DescriptionTexts}
    ELSE {[text |-> <<49>>, run |-> [throws |-> TRUE, output |-> ZeroVector]],
          [text |-> <<97>>,
           run |-> [throws |-> FALSE, output |-> UnitVector([p \in {97} |-> -1])]],
          [text |-> <<97>>,
           run |-> [throws |-> FALSE,
                    output |-> UnitVector([p \in {97, 196} |-> IF p = 97 THEN 3 ELSE 4])]]}

\* Analyses whose structures are enhanced
EnhAnalyses == DetAnalyses \cup {Analysis(<<>>), Analysis(<<Rel(1, 2, "similar", 70)>>)}

\* The structure lists analyzeMusicStructure enhances
AnalysedStructureLists == {AnalysedStructures(n) : n \in 0..MaxEnhanced}

\* One score: a repeat relationship, one structure
OneAnalysis == Analysis(<<Rel(1, 2, "repeat", 90)>>)

OneAnalysedStructure == AnalysedStructures(1)

\* Query vectors of searchRules: the all-zero vector, the fallback embeddings
\* of "a" and "a b c d", encoder outputs, the empty array and a short array
QueryVectors ==
    {ZeroVector, EmptyVector, ShortVector,
     generateFallbackEmbedding(<<97>>),
     generateFallbackEmbedding(<<97, 32, 98, 32, 99, 32, 100>>)} \cup ModelVectors

\* topK arguments of searchRules
MaxTopK == 7

TopKs == {0, 2, 5, MaxTopK}

\* Arguments of updateRuleEmbedding: rule ids (99 is in no catalog) and embeddings
UpdatedRuleIds == {1, 3, 99}

UpdatedEmbeddings == {ZeroVector, ShortVector, UnitVector([p \in {97} |-> -1])}

-----------------------------------------------------------------------------
(* Operations                                                                *)

Init ==
    /\ isModelLoaded = FALSE
    /\ embeddingModel = "null"
    /\ loadingStatus = InitialStatus
    /\ lastAnalysis = NoAnalysis
    /\ call = [op |-> "none"]
    /\ ret = "none"
    /\ recommended = <<>>
    /\ rules = <<>>
    /\ isInitialized = FALSE
    /\ embeddingRuns = 0
    /\ loadLog = <<>>
    /\ weights = <<>>
    /\ actionLog = <<>>
    /\ tasks = [t \in Tasks |-> IdleTask]
    /\ pipelineCalls = 0
    /\ transformersServiceInstance = 0
    /\ instances = <<>>
    /\ returned = {}

\* analyzeMusicStructure(musicData, localAnalysis); analysis and structures
\* are what MusicAnalysisEngine.analyzeMusicStructure(musicData) produced (the
\* service reads nothing but the relationships from lastAnalysis), queries
\* what the description and the pipeline give for each structure
AnalyzeMusicStructure(analysis, structures) ==
    /\ InitializeModels
    /\ lastAnalysis' = analysis
    /\ \E queries \in [1..Len(structures) -> QueriesWith(embeddingModel')] :
           /\ call' = [op |-> "analyzeMusicStructure", structures |-> structures,
                       queries |-> queries]
           /\ ret' = enhanceStructuresWithKnowledge(structures, queries,
                                                    embeddingModel', rules')
    /\ UNCHANGED <<recommended, outside>>

LastTwo(log) == IF Len(log) <= 2 THEN log ELSE SubSeq(log, Len(log) - 1, Len(log))

RecommendVisuals(emotion, structureLevel, preferences, structureId, logged) ==
    LET schemes == recommendVisuals(lastAnalysis, emotion, structureLevel,
                                    preferences, structureId)
    IN  /\ InitializeModels
        /\ call' = [op |-> "recommendVisuals", emotion |-> emotion,
                    structureLevel |-> structureLevel, preferences |-> preferences,
                    structureId |-> structureId]
        /\ ret' = schemes
        /\ recommended' =
               IF logged
               THEN LastTwo(Append(recommended,
                                   [args |-> call', analysis |-> lastAnalysis, ret |-> schemes]))
               ELSE recommended
        /\ UNCHANGED <<lastAnalysis, outside>>

IdentifyForm(structures) ==
    /\ InitializeModels
    /\ call' = [op |-> "identifyForm", structures |-> structures]
    /\ ret' = identifyForm(lastAnalysis, structures)
    /\ UNCHANGED <<lastAnalysis, recommended, outside>>

RecognizeEmotions(structures) ==
    /\ InitializeModels
    /\ call' = [op |-> "recognizeEmotions", structures |-> structures]
    /\ ret' = recognizeEmotions(structures)
    /\ UNCHANGED <<lastAnalysis, recommended, outside>>

InferEmotion(features) ==
    /\ InitializeModels
    /\ call' = [op |-> "inferEmotion", features |-> features]
    /\ ret' = inferEmotion(features)
    /\ UNCHANGED <<lastAnalysis, recommended, outside>>

\* The store forgetting to clear, like its clearApiKey
ClearPreferencesNoOp ==
    /\ call' = [op |-> "clearPreferences"]
    /\ ret' = "undefined"
    /\ actionLog' = <<>>
    /\ UNCHANGED <<service, kb, lastAnalysis, recommended, weights, conc, factory>>

\* useUserStore.clearPreferences()
ClearPreferences ==
    /\ call' = [op |-> "clearPreferences"]
    /\ ret' = "undefined"
    /\ weights' = clearedPreferences
    /\ actionLog' = <<>>
    /\ UNCHANGED <<service, kb, lastAnalysis, recommended, conc, factory>>

\* useUserStore.recordUserAction(action)
RecordUserAction(action) ==
    /\ Len(actionLog) < MaxActions
    /\ call' = [op |-> "recordUserAction", action |-> action]
    /\ ret' = "undefined"
    /\ weights' = recordAction(weights, action)
    /\ actionLog' = Append(actionLog, action)
    /\ UNCHANGED <<service, kb, lastAnalysis, recommended, conc, factory>>

\* generateStructureDescription(structure, musicData), as
\* enhanceStructuresWithKnowledge calls it for a structure
DescribeStructure(structure, measures) ==
    /\ call' = [op |-> "generateStructureDescription", structure |-> structure,
                measures |-> measures]
    /\ ret' = generateStructureDescription(structure, measures)
    /\ UNCHANGED <<service, kb, lastAnalysis, recommended, outside>>

AnalyzeSimilarity(structures) ==
    /\ InitializeModels
    /\ call' = [op |-> "analyzeSimilarity", structures |-> structures]
    /\ \E random \in RandomDraws(lastAnalysis, structures) :
           ret' = analyzeSimilarity(lastAnalysis, structures, random)
    /\ UNCHANGED <<lastAnalysis, recommended, outside>>

\* initializeModels() called on its own
LoadModels ==
    /\ InitializeModels
    /\ call' = [op |-> "initializeModels"]
    /\ ret' = "undefined"
    /\ UNCHANGED <<lastAnalysis, recommended, outside>>

\* generateEmbedding(text), which does not wait for initializeModels
GenerateEmbedding(text) ==
    \E run \in RunsWith(embeddingModel) :
        /\ call' = [op |-> "generateEmbedding", text |-> text, run |-> run]
        /\ ret' = generateEmbedding(embeddingModel, text, run)
        /\ UNCHANGED <<service, kb, lastAnalysis, recommended, outside>>

\* knowledgeBase.initialize()
Initialize ==
    /\ KnowledgeBaseInitialize
    /\ call' = [op |-> "initialize"]
    /\ ret' = "undefined"
    /\ UNCHANGED <<service, lastAnalysis, recommended, outside>>

\* knowledgeBase.searchRules(queryEmbedding, topK)
SearchRules(queryEmbedding, topK) ==
    /\ call' = [op |-> "searchRules", queryEmbedding |-> queryEmbedding, topK |-> topK]
    /\ ret' = searchRules(rules, queryEmbedding, topK)
    /\ rules' = rulesAfterSearch(rules, queryEmbedding, topK)
    /\ UNCHANGED <<service, lastAnalysis, recommended, isInitialized, embeddingRuns, outside>>

\* knowledgeBase.updateRuleEmbedding(ruleId, embedding)
UpdateRuleEmbedding(ruleId, embedding) ==
    /\ call' = [op |-> "updateRuleEmbedding", ruleId |-> ruleId, embedding |-> embedding]
    /\ ret' = "undefined"
    /\ rules' = updateRuleEmbedding(rules, ruleId, embedding)
    /\ UNCHANGED <<service, lastAnalysis, recommended, isInitialized, embeddingRuns, outside>>

-----------------------------------------------------------------------------
(* Overlapping calls                                                         *)
(*                                                                           *)
(* An async method runs from one await to the next without interruption; a   *)
(* caller t takes one step per such stretch.  tasks[t].pc is the await it is *)
(* suspended at, tasks[t].op the public operation under way.                 *)

\* The task is inside analyzeMusicStructure
InAnalysis(task) == task.op = "analyzeMusicStructure" /\ task.pc # "analyzed"

\* What the operation under way does once its await of initializeModels() is
\* over: analyzeMusicStructure records the analysis of its score and goes on
\* to the enhancement, identifyForm and analyzeSimilarity compute their result
AfterInitialize(t) ==
    /\ tasks[t].pc = "initialized"
    /\ CASE tasks[t].op = "analyzeMusicStructure" ->
                /\ lastAnalysis' = ScoreAnalysis(t)
                /\ tasks' = [tasks EXCEPT ![t].pc = "enhancing",
                                          ![t].structures = ScoreStructures(t)]
         [] tasks[t].op = "identifyForm" ->
                /\ tasks' = [tasks EXCEPT ![t].pc = "done",
                                          ![t].result = identifyForm(lastAnalysis,
                                                                     tasks[t].structures)]
                /\ UNCHANGED lastAnalysis
         [] tasks[t].op = "analyzeSimilarity" ->
                /\ \E random \in RandomDraws(lastAnalysis, tasks[t].structures) :
                       tasks' = [tasks EXCEPT ![t].pc = "done",
                                              ![t].result = analyzeSimilarity(lastAnalysis,
                                                                tasks[t].structures, random)]
                /\ UNCHANGED lastAnalysis
    /\ UNCHANGED <<service, kb, pipelineCalls, call, ret, recommended, store, factory>>

\* enhanceStructuresWithKnowledge has run and analyzeMusicStructure returns
Enhanced(t) ==
    /\ tasks[t].pc = "enhancing"
    /\ tasks' = [tasks EXCEPT ![t].pc = "analyzed",
                              ![t].structures =
                                  enhanceStructuresWithKnowledge(tasks[t].structures,
                                      ScoreQueries(t, embeddingModel), embeddingModel, rules)]
    /\ UNCHANGED <<service, kb, lastAnalysis, pipelineCalls, call, ret, recommended,
                   store, factory>>

\* A public operation is called and runs to the first await: the guard of
\* initializeModels, and without the early return the first two updateStatus
\* calls and knowledgeBase.initialize(), which runs to its end or throws
CallOperation(t, op) ==
    /\ \/ tasks[t].pc = "idle" /\ op = "analyzeMusicStructure"
       \/ tasks[t].pc = "analyzed" /\ op \in {"identifyForm", "analyzeSimilarity"}
    /\ \E kbThrows \in BOOLEAN :
          LET pc == IF isModelLoaded THEN "initialized"
                    ELSE IF kbThrows THEN "kbFailed" ELSE "kb"
              joins == op = "analyzeMusicStructure"
                       /\ \E u \in Tasks \ {t} : InAnalysis(tasks[u])
          IN  /\ isModelLoaded => ~kbThrows
              /\ tasks' = [u \in Tasks |->
                              IF u = t
                              THEN [tasks[t] EXCEPT !.pc = pc, !.op = op,
                                                    !.overlapped = @ \/ joins]
                              ELSE IF op = "analyzeMusicStructure" /\ InAnalysis(tasks[u])
                              THEN [tasks[u] EXCEPT !.overlapped = TRUE]
                              ELSE tasks[u]]
              /\ IF isModelLoaded
                 THEN UNCHANGED <<loadingStatus, kb>>
                 ELSE /\ loadingStatus' =
                             [loadingStatus EXCEPT
                                 !.isLoading = TRUE, !.progress = 10,
                                 !.currentModel = "Loading music theory knowledge base..."]
                      /\ IF kbThrows THEN UNCHANGED kb ELSE KnowledgeBaseInitialize
    /\ UNCHANGED <<isModelLoaded, embeddingModel, loadLog, lastAnalysis, pipelineCalls,
                   call, ret, recommended, store, factory>>

\* The outer catch of initializeModels
KnowledgeBaseFailed(t) ==
    /\ tasks[t].pc = "kbFailed"
    /\ tasks' = [tasks EXCEPT ![t].pc = "initialized"]
    /\ loadingStatus' = [loadingStatus EXCEPT !.isLoading = FALSE, !.error = "Error",
                                              !.currentModel = "Failed to load"]
    /\ isModelLoaded' = TRUE
    /\ loadLog' = Append(loadLog, "knowledgeBaseFailed")
    /\ UNCHANGED <<embeddingModel, kb, lastAnalysis, pipelineCalls, call, ret, recommended,
                   store, factory>>

\* After await this.knowledgeBase.initialize(): up to await import(...)
KnowledgeBaseLoaded(t) ==
    /\ tasks[t].pc = "kb"
    /\ tasks' = [tasks EXCEPT ![t].pc = "import"]
    /\ loadingStatus' = [loadingStatus EXCEPT !.progress = 30,
                                              !.currentModel = "Loading embedding model..."]
    /\ UNCHANGED <<isModelLoaded, embeddingModel, loadLog, kb, lastAnalysis, pipelineCalls,
                   call, ret, recommended, store, factory>>

\* The end of the body of initializeModels, through the inner catch or not
FinishLoad(t, outcome) ==
    /\ tasks' = [tasks EXCEPT ![t].pc = "initialized"]
    /\ embeddingModel' = IF outcome = "loaded" THEN "pipeline" ELSE embeddingModel
    /\ loadingStatus' = [loadingStatus EXCEPT !.progress = 100, !.currentModel = "Ready",
                                              !.isLoading = FALSE]
    /\ isModelLoaded' = TRUE
    /\ loadLog' = Append(loadLog, outcome)

\* After await import(...): the import failed, or pipeline(...) is called
Imported(t) ==
    /\ tasks[t].pc = "import"
    /\ \/ /\ FinishLoad(t, "modelFailed")
          /\ UNCHANGED pipelineCalls
       \/ /\ tasks' = [tasks EXCEPT ![t].pc = "pipeline"]
          /\ loadingStatus' = [loadingStatus EXCEPT
                                  !.progress = 50,
                                  !.currentModel = "Loading all-MiniLM-L6-v2 (23MB)..."]
          /\ pipelineCalls' = pipelineCalls + 1
          /\ UNCHANGED <<isModelLoaded, embeddingModel, loadLog>>
    /\ UNCHANGED <<kb, lastAnalysis, call, ret, recommended, store, factory>>

\* progress_callback during the download, for a progress of 50 percent
PipelineProgress(t) ==
    /\ tasks[t].pc = "pipeline"
    /\ loadingStatus.progress # 70
    /\ loadingStatus' = [loadingStatus EXCEPT !.progress = 70]
    /\ UNCHANGED <<isModelLoaded, embeddingModel, loadLog, kb, lastAnalysis, conc,
                   call, ret, recommended, store, factory>>

\* After await pipeline(...): the model is there, or the download failed
PipelineSettled(t) ==
    /\ tasks[t].pc = "pipeline"
    /\ \E outcome \in {"loaded", "modelFailed"} : FinishLoad(t, outcome)
    /\ UNCHANGED <<kb, lastAnalysis, pipelineCalls, call, ret, recommended, store, factory>>

-----------------------------------------------------------------------------
(* AIServiceFactory                                                          *)

\* config.dev.ENABLE_MOCK_MODE
ENABLE_MOCK_MODE == FALSE

\* new TransformersAIService(): the fields as their initializers leave them
NewTransformersAIService == [isModelLoaded |-> FALSE, lastAnalysis |-> NoAnalysis]

\* What a factory call finds: the instances createAIService has returned
\* since the last reset, and the number of objects constructed so far
FactoryCall(op) == [op |-> op, held |-> returned, constructed |-> Len(instances)]

\* createAIService constructing a service on every call
createAIServiceAlwaysNew ==
    /\ Len(instances) < MaxInstances
    /\ instances' = Append(instances, NewTransformersAIService)
    /\ transformersServiceInstance' = Len(instances) + 1
    /\ returned' = returned \cup {Len(instances) + 1}
    /\ call' = FactoryCall("createAIService")
    /\ ret' = Len(instances) + 1
    /\ UNCHANGED <<service, kb, lastAnalysis, recommended, store, conc>>

\* createAIService(apiKey): the singleton, constructed when there is none
createAIService ==
    /\ transformersServiceInstance = 0 => Len(instances) < MaxInstances
    /\ call' = FactoryCall("createAIService")
    /\ IF ENABLE_MOCK_MODE
       THEN /\ ret' = "MockAIService"
            /\ UNCHANGED factory
       ELSE /\ IF transformersServiceInstance = 0
               THEN /\ instances' = Append(instances, NewTransformersAIService)
                    /\ transformersServiceInstance' = Len(instances) + 1
               ELSE UNCHANGED <<instances, transformersServiceInstance>>
            /\ ret' = transformersServiceInstance'
            /\ returned' = returned \cup {transformersServiceInstance'}
    /\ UNCHANGED <<service, kb, lastAnalysis, recommended, store, conc>>

\* getAIServiceInstance(): the singleton or null
getAIServiceInstance ==
    /\ call' = FactoryCall("getAIServiceInstance")
    /\ ret' = IF ENABLE_MOCK_MODE THEN "MockAIService" ELSE transformersServiceInstance
    /\ UNCHANGED <<service, kb, lastAnalysis, recommended, store, conc, factory>>

\* resetAIService()
resetAIService ==
    /\ transformersServiceInstance' = 0
    /\ returned' = {}
    /\ call' = FactoryCall("resetAIService")
    /\ ret' = "none"
    /\ UNCHANGED <<instances, service, kb, lastAnalysis, recommended, store, conc>>

\* initializeModels() on an object the factory has handed out
InstanceInitializeModels(i) ==
    /\ instances' = [instances EXCEPT ![i].isModelLoaded = TRUE]
    /\ call' = [op |-> "initializeModels", instance |-> i]
    /\ ret' = "none"
    /\ UNCHANGED <<transformersServiceInstance, returned,
                   service, kb, lastAnalysis, recommended, store, conc>>

\* analyzeMusicStructure(musicData) on an object the factory has handed out
InstanceAnalyzeMusicStructure(i, analysis) ==
    /\ instances' = [instances EXCEPT ![i] = [isModelLoaded |-> TRUE,
                                              lastAnalysis |-> analysis]]
    /\ call' = [op |-> "analyzeMusicStructure", instance |-> i]
    /\ ret' = "none"
    /\ UNCHANGED <<transformersServiceInstance, returned,
                   service, kb, lastAnalysis, recommended, store, conc>>

-----------------------------------------------------------------------------
(* Specifications                                                            *)

Analyze == \E analysis \in RecAnalyses : AnalyzeMusicStructure(analysis, <<>>)

Recommend ==
    \E args \in RecommendArgs :
        RecommendVisuals(args[1], args[2], args[3], args[4], FALSE)

Form == \E structures \in StructureLists : IdentifyForm(structures)

Similarity == \E structures \in StructureLists : AnalyzeSimilarity(structures)

\* The whole service
Next == Analyze \/ Recommend \/ Form \/ Similarity

Spec == Init /\ [][Next]_vars

\* The recommender
NextRec == Analyze \/ Recommend

SpecRec == Init /\ [][NextRec]_vars

\* Pairs of recommendVisuals calls with analyses between them
AnalyzeDet == \E analysis \in DetAnalyses : AnalyzeMusicStructure(analysis, <<>>)

RecommendDet ==
    \E structureLevel \in {"motive", "phrase"},
       preferences \in {NoPreferences, SomePreferences},
       structureId \in {NoStructureId, 1, 3} :
        RecommendVisuals(FastStrongTense, structureLevel, preferences, structureId, TRUE)

NextDet == AnalyzeDet \/ RecommendDet

SpecDet == Init /\ [][NextDet]_vars

\* Form identification
AnalyzeForm == \E analysis \in FormAnalyses : AnalyzeMusicStructure(analysis, <<>>)

NextForm == AnalyzeForm \/ Form

SpecForm == Init /\ [][NextForm]_vars

\* Similarity grouping
AnalyzeSim == \E analysis \in SimAnalyses : AnalyzeMusicStructure(analysis, <<>>)

NextSim == AnalyzeSim \/ Similarity

SpecSim == Init /\ [][NextSim]_vars

\* The knowledge base on its own
Search == \E queryEmbedding \in QueryVectors, topK \in TopKs : SearchRules(queryEmbedding, topK)

Update ==
    \E ruleId \in UpdatedRuleIds, embedding \in UpdatedEmbeddings :
        UpdateRuleEmbedding(ruleId, embedding)

NextKB == Initialize \/ Search \/ Update

SpecKB == Init /\ [][NextKB]_vars

\* Knowledge-enhanced analysis
AnalyzeEnh ==
    \E analysis \in EnhAnalyses, structures \in AnalysedStructureLists :
        AnalyzeMusicStructure(analysis, structures)

NextEnh == AnalyzeEnh

SpecEnh == Init /\ [][NextEnh]_vars

\* The embedding provider
Embed == \E text \in Texts : GenerateEmbedding(text)

NextEmb == LoadModels \/ Embed

SpecEmb == Init /\ [][NextEmb]_vars

\* Emotion recognition
Recognize == \E structures \in EmoStructureLists : RecognizeEmotions(structures)

NextEmo == LoadModels \/ Recognize

SpecEmo == Init /\ [][NextEmo]_vars

\* Loading, seen from every public operation
Infer == \E features \in MusicFeatures : InferEmotion(features)

RecommendUnanalysed ==
    \E emotion \in Emotions, structureId \in StructureIdArgs :
        RecommendVisuals(emotion, "motive", NoPreferences, structureId, FALSE)

FormUnanalysed == \E b \in {0, 3} : IdentifyForm(Structures(1, b))

SimilarityUnanalysed == \E b \in {0, 3, 4} : AnalyzeSimilarity(Structures(1, b))

RecognizeOne == \E structure \in EmoOptions(1) : RecognizeEmotions(<<structure>>)

EmbedDescription == \E text \in DescriptionTexts : GenerateEmbedding(text)

AnalyzeOne == AnalyzeMusicStructure(OneAnalysis, OneAnalysedStructure)

NextLoad ==
    \/ LoadModels
    \/ EmbedDescription
    \/ AnalyzeOne
    \/ Infer
    \/ RecommendUnanalysed
    \/ FormUnanalysed
    \/ SimilarityUnanalysed
    \/ RecognizeOne

SpecLoad == Init /\ [][NextLoad]_vars

\* The user store
Record == \E action \in UserActions : RecordUserAction(action)

NextStore == Record \/ ClearPreferences

SpecStore == Init /\ [][NextStore]_vars

\* Structure descriptions
Describe ==
    \E score \in DescribedScores : DescribeStructure(score.structure, score.measures)

NextDesc == Describe

SpecDesc == Init /\ [][NextDesc]_vars

\* Callers whose calls overlap: each analyses its score and then asks for
\* the form or the similarity groups of the structures it received;
\* generateEmbedding is called in between
Call ==
    \E t \in Tasks, op \in {"analyzeMusicStructure", "identifyForm", "analyzeSimilarity"} :
        CallOperation(t, op)

Load ==
    \E t \in Tasks : KnowledgeBaseFailed(t) \/ KnowledgeBaseLoaded(t) \/ Imported(t)
                     \/ PipelineProgress(t) \/ PipelineSettled(t)

Resume == \E t \in Tasks : AfterInitialize(t) \/ Enhanced(t)

NextConc == Call \/ Load \/ Resume \/ EmbedDescription

SpecConc == Init /\ [][NextConc]_vars

\* The factory and the objects it hands out; an object stays usable by whoever
\* holds it after resetAIService
UseInstance ==
    \E i \in 1..Len(instances) :
        \/ InstanceInitializeModels(i)
        \/ \E t \in Tasks : InstanceAnalyzeMusicStructure(i, ScoreAnalysis(t))

NextFactory == createAIService \/ getAIServiceInstance \/ resetAIService \/ UseInstance

SpecFactory == Init /\ [][NextFactory]_vars

-----------------------------------------------------------------------------
(* Properties of recommendVisuals                                            *)

Recommended == call.op = "recommendVisuals"

\* C1: in every service state and for all arguments, recommendVisuals returns
\* exactly 5 schemes, and the scheme at index i has confidence 0.95 - 0.05 * i:
\* 0.95, 0.90, 0.85, 0.80, 0.75, strictly descending.
C1_FiveSchemesDescending ==
    Recommended =>
        /\ Len(ret) = 5
        /\ [k \in 1..Len(ret) |-> ret[k].confidence] = <<95, 90, 85, 80, 75>>
        /\ \A i \in 0..4 : 100 * At(ret, i).confidence = 9500 - 500 * i
        /\ \A k \in 1..(Len(ret) - 1) : ret[k].confidence > ret[k + 1].confidence

\* recommendVisuals has answered with an analysis recorded, for a structure of
\* that analysis, with preferences, on a service whose embedding model failed to load
C1_Witness ==
    /\ Recommended
    /\ ~lastAnalysis.isNull
    /\ structureTypeOf(lastAnalysis, call.structureId) = "contrast"
    /\ ~call.preferences.isNull
    /\ isModelLoaded /\ embeddingModel = "null"

\* The place (1-based) of token t when items is sorted stably by descending
\* weight: behind every heavier token and every equally heavy token that
\* precedes it in items
StableRank(prefs, items, t) ==
    LET place(u) == CHOOSE k \in 1..Len(items) : items[k] = u
        w(u)     == IF u \in DOMAIN prefs THEN prefs[u] ELSE 0
    IN  1 + Cardinality({u \in Range(items) :
                            \/ w(u) > w(t)
                            \/ w(u) = w(t) /\ place(u) < place(t)})

StablySorted(prefs, items) ==
    [k \in 1..Len(items) |-> CHOOSE t \in Range(items) : StableRank(prefs, items, t) = k]

\* C3: with preferences supplied, the shape and the animation of every element
\* are read from the candidate lists sorted stably by descending weight, absent
\* weights counting as 0; so a negative weight ranks behind every token never
\* acted on.
C3_StableDescendingOrder ==
    (Recommended /\ ~call.preferences.isNull) =>
        LET structureType == structureTypeOf(lastAnalysis, call.structureId)
            byShape       == StablySorted(call.preferences.shapePreferences, shapes)
            byAnimation   == StablySorted(call.preferences.animationPreferences, animations)
        IN  \A i \in 0..(Len(ret) - 1) :
                \A j \in 0..(Len(At(ret, i).elements) - 1) :
                    LET e == At(At(ret, i).elements, j)
                    IN  /\ e.type = At(byShape, shapeIndex(structureType, i, j))
                        /\ e.animation.type = At(byAnimation, j % 5)
                        /\ \A t \in Range(shapes) :
                               (/\ WeightOf(call.preferences.shapePreferences, e.type) < 0
                                /\ t \notin DOMAIN call.preferences.shapePreferences)
                               => StableRank(call.preferences.shapePreferences, shapes, t)
                                  < shapeIndex(structureType, i, j) + 1

\* A rejected shape (negative weight) is shown, behind tokens never acted on and
\* behind an accepted one that the fixed order puts after it
C3_Witness ==
    /\ Recommended
    /\ ~call.preferences.isNull
    /\ \E i \in 1..Len(ret) : \E j \in 1..Len(ret[i].elements) :
           WeightOf(call.preferences.shapePreferences, ret[i].elements[j].type) < 0
    /\ ret[1].elements[1].type = "square"
    /\ ret[1].elements[1].animation.type = "slide"

\* What C4 says preferences cannot change
Frame(schemes) ==
    [k \in 1..Len(schemes) |->
        [id         |-> schemes[k].id,
         layout     |-> schemes[k].layout,
         confidence |-> schemes[k].confidence,
         elements   |-> [j \in 1..Len(schemes[k].elements) |->
                            [id       |-> schemes[k].elements[j].id,
                             color    |-> schemes[k].elements[j].color,
                             size     |-> schemes[k].elements[j].size,
                             duration |-> schemes[k].elements[j].animation.duration,
                             easing   |-> schemes[k].elements[j].animation.easing]]]]

\* C4: for fixed emotion, level, structureId and service state, everything but
\* the shape and the animation type of the elements is the same for every
\* preference snapshot (none included), and every color comes from the palette
\* of the emotion.
C4_PreferencesOnlyReorder ==
    Recommended =>
        /\ Frame(ret) = Frame(recommendVisuals(lastAnalysis, call.emotion, call.structureLevel,
                                               NoPreferences, call.structureId))
        /\ \A k \in 1..Len(ret) : \A j \in 1..Len(ret[k].elements) :
               ret[k].elements[j].color \in Range(getColorsForEmotion(call.emotion))

\* Preferences with a weight on a palette color changed the shapes of the answer
C4_Witness ==
    /\ Recommended
    /\ ~call.preferences.isNull
    /\ \E c \in DOMAIN call.preferences.colorPreferences :
           c \in Range(getColorsForEmotion(call.emotion))
    /\ ret # recommendVisuals(lastAnalysis, call.emotion, call.structureLevel,
                              NoPreferences, call.structureId)

Logged(k) == recommended[k]

TwoCallsSameArguments == Len(recommended) = 2 /\ Logged(1).args = Logged(2).args

\* C2 as claimed: two calls with identical arguments return identical schemes,
\* whatever ran between them.
C2_SameArgumentsSameSchemes ==
    TwoCallsSameArguments => Logged(1).ret = Logged(2).ret

\* C2: two recommendVisuals calls with identical arguments return identical
\* schemes when the service holds the same analysis at both calls, and, when no
\* structureId is given, whatever analyses were recorded between them.
C2_SameAnalysisSameSchemes ==
    (/\ TwoCallsSameArguments
     /\ \/ Logged(1).analysis = Logged(2).analysis
        \/ Logged(1).args.structureId = NoStructureId)
    => Logged(1).ret = Logged(2).ret

\* Two calls without structureId, an analysis recorded between them
C2_Witness ==
    /\ TwoCallsSameArguments
    /\ Logged(1).args.structureId = NoStructureId
    /\ Logged(1).analysis # Logged(2).analysis
    /\ ~Logged(1).args.preferences.isNull

-----------------------------------------------------------------------------
(* Properties of identifyForm                                                *)

Identified == call.op = "identifyForm"

Recorded == lastAnalysis.relationships

NumberOf(type) == Cardinality({k \in 1..Len(Recorded) : Recorded[k].type = type})

\* The first and the last structure of the argument are related by a repeat
\* relationship, in either id order
FirstLastRepeat ==
    /\ Len(call.structures) >= 1
    /\ \E k \in 1..Len(Recorded) :
          /\ Recorded[k].type = "repeat"
          /\ {<<Recorded[k].id1, Recorded[k].id2>>, <<Recorded[k].id2, Recorded[k].id1>>}
             \cap {<<call.structures[1].id, call.structures[Len(call.structures)].id>>} # {}

TernaryRule == NumberOf("repeat") >= 2 /\ Len(call.structures) >= 3 /\ FirstLastRepeat

RondoRule == NumberOf("repeat") >= 3 /\ Len(call.structures) >= 5

BinaryRule == Len(call.structures) <= 4 /\ NumberOf("contrast") >= 1

SonataRule ==
    Len(call.structures) >= 8 /\ NumberOf("repeat") >= 2 /\ NumberOf("contrast") >= 2

\* C5: with relationship data recorded, at least 2 repeat relationships, at
\* least 3 structures and the first and last structure repeat-related (either
\* id order), identifyForm returns "Ternary Form (ABA)", whatever the contrast
\* count and whether or not the Rondo, Binary or Sonata conditions hold too.
C5_TernaryFirst ==
    (Identified /\ ~lastAnalysis.isNull /\ TernaryRule) => ret = "Ternary Form (ABA)"

\* Ternary is returned for 8 structures where the Rondo and the Sonata
\* conditions hold too, the relationship naming the last structure first
C5_Witness ==
    /\ Identified /\ ~lastAnalysis.isNull /\ TernaryRule
    /\ RondoRule /\ SonataRule
    /\ \E k \in 1..Len(Recorded) :
          Recorded[k].id1 = call.structures[Len(call.structures)].id
          /\ Recorded[k].id2 = call.structures[1].id
    /\ ret = "Ternary Form (ABA)"

SpecExample == <<Rel(1, 2, "repeat", 90), Rel(2, 3, "contrast", 20), Rel(3, 4, "repeat", 85)>>

\* C6: with relationship data recorded and the Ternary rule not matching, 4 or
\* fewer structures with at least 1 contrast relationship give "Binary Form
\* (AB)"; so do S1..S4 with (S1,S2) repeat, (S2,S3) contrast, (S3,S4) repeat.
C6_BinaryAfterTernary ==
    Identified =>
        /\ (~lastAnalysis.isNull /\ ~TernaryRule /\ BinaryRule) => ret = "Binary Form (AB)"
        /\ (lastAnalysis = Analysis(SpecExample) /\ call.structures = Structures(1, 4))
           => ret = "Binary Form (AB)"

\* identifyForm has answered for S1..S4 under the relationships of the example
C6_Witness ==
    /\ Identified
    /\ lastAnalysis = Analysis(SpecExample)
    /\ call.structures = Structures(1, 4)
    /\ ret = "Binary Form (AB)"

FormLabels ==
    {"Ternary Form (ABA)", "Rondo Form (ABACA)", "Binary Form (AB)", "Sonata Form",
     "Rondo Form", "Through-composed Form"}

\* C7: identifyForm returns a form label for every input and never throws; with
\* no analysis recorded, or none of the Ternary, Rondo, Binary and Sonata rules
\* matching, the label depends on the structure count n only: n <= 2 Binary,
\* n <= 4 Ternary, n <= 6 Rondo, larger n Through-composed.
C7_CountFallback ==
    Identified =>
        /\ ret \in FormLabels
        /\ (lastAnalysis.isNull \/ ~(TernaryRule \/ RondoRule \/ BinaryRule \/ SonataRule))
           => LET n == Len(call.structures)
              IN  ret = CASE n <= 2 -> "Binary Form (AB)"
                          [] n \in 3..4 -> "Ternary Form (ABA)"
                          [] n \in 5..6 -> "Rondo Form"
                          [] OTHER -> "Through-composed Form"

\* identifyForm has answered for an empty structure list with an analysis of
\* two repeat relationships and no contrast recorded: no rule matches
C7_Witness ==
    /\ Identified
    /\ ~lastAnalysis.isNull
    /\ NumberOf("repeat") >= 2 /\ NumberOf("contrast") = 0
    /\ call.structures = <<>>
    /\ ret = "Binary Form (AB)"

-----------------------------------------------------------------------------
(* Properties of analyzeSimilarity                                           *)

Grouped == call.op = "analyzeSimilarity"

\* The relationships the walk looks at: repeat, or similar above 0.6
Qualifies(r) == r.type = "repeat" \/ (r.type = "similar" /\ r.similarity > 60)

Qualifying == SelectSeq(Recorded, Qualifies)

\* C8: analyzeSimilarity on fewer than 4 structures returns the empty sequence
\* in every service state, also with qualifying relationships recorded.
C8_FewStructuresNoGroups ==
    (Grouped /\ Len(call.structures) < 4) => ret = <<>>

\* Three structures, and an analysis with two qualifying relationships
C8_Witness ==
    /\ Grouped
    /\ Len(call.structures) = 3
    /\ ~lastAnalysis.isNull
    /\ Len(Qualifying) >= 2
    /\ ret = <<>>

\* The structures that are an endpoint of one of the first n qualifying relationships
TouchedBy(n) == UNION {{Qualifying[m].id1, Qualifying[m].id2} : m \in 1..n}

\* The qualifying relationships that open a group: those with an endpoint
\* that no earlier qualifying relationship has
Opening ==
    LET Opens(k) == ~({Qualifying[k].id1, Qualifying[k].id2} \subseteq TouchedBy(k - 1))
    IN  {k \in 1..Len(Qualifying) : Opens(k)}

\* The m-th smallest element of a set of numbers
Nth(S, m) == CHOOSE x \in S : Cardinality({y \in S : y < x}) = m - 1

\* The not yet assigned endpoints of the k-th qualifying relationship, id1 first
NewEndpoints(k) ==
    LET r == Qualifying[k]
    IN  (IF r.id1 \in TouchedBy(k - 1) THEN <<>> ELSE <<r.id1>>)
        \o (IF r.id2 \in TouchedBy(k - 1) \/ r.id2 = r.id1 THEN <<>> ELSE <<r.id2>>)

\* C9: with relationship data recorded and at least 4 structures, the groups are
\* the qualifying relationships (repeat, or similar above 0.6) that have a not
\* yet assigned endpoint, in detection order: each holds exactly those
\* endpoints, is labelled A..E in order of creation (wrapping after E) and
\* carries the similarity and description of its relationship.  So no id is in
\* two groups, a group has 1 or 2 members, a structure no qualifying
\* relationship touches is in no group, and the example gives A:{S1,S2}, B:{S3,S4}.
C9_RelationshipWalk ==
    (Grouped /\ ~lastAnalysis.isNull /\ Len(call.structures) >= 4) =>
        /\ Len(ret) = Cardinality(Opening)
        /\ \A m \in 1..Len(ret) :
               LET k == Nth(Opening, m)
               IN  /\ ret[m].groupId = <<"A", "B", "C", "D", "E">>[((m - 1) % 5) + 1]
                   /\ ret[m].structureIds = NewEndpoints(k)
                   /\ ret[m].similarityScore = Qualifying[k].similarity
                   /\ ret[m].commonFeatures = <<Qualifying[k].description>>
                   /\ Len(ret[m].structureIds) \in {1, 2}
        /\ \A m1, m2 \in 1..Len(ret) :
               m1 # m2 => Range(ret[m1].structureIds) \cap Range(ret[m2].structureIds) = {}
        /\ UNION {Range(ret[m].structureIds) : m \in 1..Len(ret)} = TouchedBy(Len(Qualifying))
        /\ Recorded = SpecExample
           => [m \in 1..Len(ret) |-> <<ret[m].groupId, ret[m].structureIds>>]
              = <<  <<"A", <<1, 2>>>>, <<"B", <<3, 4>>>>  >>

\* Six groups, the sixth labelled A again, the first with two members and the
\* others with the one endpoint that was not assigned yet
C9_Witness ==
    /\ Grouped /\ ~lastAnalysis.isNull /\ Len(call.structures) >= 4
    /\ Len(ret) = 6
    /\ ret[6].groupId = "A"
    /\ Len(ret[1].structureIds) = 2
    /\ \A m \in 2..6 : Len(ret[m].structureIds) = 1

\* The three position windows of n structures, as index ranges (0-based, end exclusive)
Windows(n) ==
    [i \in 1..(IF n >= 5 THEN 3 ELSE 2) |->
        <<(i - 1) * (n \div 3), MinOf((i - 1) * (n \div 3) + (n \div 3) + 1, n)>>]

\* C10: on 4 or more structures, the groups come from the relationship walk
\* (possibly none) whenever an analysis is recorded, and they are the position
\* windows exactly when none is; an analysis once recorded stays recorded.
C10_State ==
    (Grouped /\ Len(call.structures) >= 4) =>
        /\ ~lastAnalysis.isNull =>
               \A m \in 1..Len(ret) :
                   \E k \in 1..Len(Qualifying) :
                       /\ ret[m].commonFeatures = <<Qualifying[k].description>>
                       /\ ret[m].similarityScore = Qualifying[k].similarity
                       /\ Range(ret[m].structureIds)
                          \subseteq {Qualifying[k].id1, Qualifying[k].id2}
        /\ lastAnalysis.isNull =>
               /\ Len(ret) = Len(Windows(Len(call.structures)))
               /\ \A m \in 1..Len(ret) :
                      LET w == Windows(Len(call.structures))[m]
                      IN  /\ ret[m].structureIds =
                                 [k \in 1..(w[2] - w[1]) |-> call.structures[w[1] + k].id]
                          /\ ret[m].commonFeatures =
                                 <<"similar melodic contour", "parallel rhythmic pattern">>
                          /\ ret[m].similarityScore \in 75..94

C10_PositionOnlyWithoutAnalysis ==
    []C10_State /\ [][~lastAnalysis.isNull => ~lastAnalysis'.isNull]_vars

\* With an analysis recorded that holds no qualifying relationship,
\* analyzeSimilarity on 6 structures returned no group
C10_Witness ==
    /\ Grouped
    /\ Len(call.structures) = 6
    /\ ~lastAnalysis.isNull
    /\ Qualifying = <<>>
    /\ ret = <<>>

\* C11: with no analysis recorded, two analyzeSimilarity calls in a row on the
\* same structures return identical groups (groupId, structureIds and
\* similarityScore).
C11_FallbackDeterministic ==
    [][(/\ call.op = "analyzeSimilarity" /\ call'.op = "analyzeSimilarity"
        /\ call'.structures = call.structures
        /\ lastAnalysis.isNull /\ lastAnalysis'.isNull)
       => ret' = ret]_vars

-----------------------------------------------------------------------------
(* Properties of the knowledge base                                          *)

\* The fallback embedding of every rule has been computed once, or never
C12_State ==
    /\ isInitialized => (Len(rules) = MaxRules /\ embeddingRuns = MaxRules)
    /\ ~isInitialized => (rules = <<>> /\ embeddingRuns = 0)

\* C12: initialize() on an initialized knowledge base changes nothing - same
\* rules in the same order with the same embeddings, replaced ones included -
\* and the fallback embedding of each rule is computed exactly once per
\* knowledge base.
C12_InitializeIdempotent ==
    /\ []C12_State
    /\ [][(isInitialized /\ call'.op = "initialize")
           => (rules' = rules /\ embeddingRuns' = embeddingRuns /\ isInitialized')]_vars

\* initialize() has returned on a knowledge base one of whose embeddings had
\* been replaced by updateRuleEmbedding
C12_Witness ==
    /\ call.op = "initialize"
    /\ isInitialized
    /\ embeddingRuns = MaxRules
    /\ \E k \in 1..Len(rules) :
           rules[k].embedding # generateSimpleEmbedding(rules[k].description)

Searched == call.op = "searchRules"

\* The cosine similarity of the query of the last search to the k-th catalog rule
SimilarityOf(k) == cosineSimilarity(call.queryEmbedding, rules[k].embedding)

\* The place of the k-th catalog rule in the ranking: behind every rule more
\* similar to the query and every equally similar rule inserted before it
RankOf(k) ==
    1 + Cardinality({j \in 1..Len(rules) :
                        \/ SimilarityOf(j) > SimilarityOf(k)
                        \/ SimilarityOf(j) = SimilarityOf(k) /\ j < k})

\* C13: searchRules returns min(k, catalog size) rules, by non-increasing
\* cosine similarity to the query, equally similar rules in catalog insertion
\* order, each carrying the similarity computed for this query.
C13_TopKRanked ==
    Searched =>
        /\ Len(ret) = MinOf(call.topK, Len(rules))
        /\ \A m \in 1..Len(ret) :
               \E k \in 1..Len(rules) :
                   /\ RankOf(k) = m
                   /\ ret[m].id = rules[k].id
                   /\ ret[m].description = rules[k].description
                   /\ ret[m].embedding = rules[k].embedding
                   /\ ret[m].hasSimilarity
                   /\ ret[m].similarity = SimilarityOf(k)
        /\ \A m \in 1..(Len(ret) - 1) : ret[m].similarity >= ret[m + 1].similarity

\* A search for 2 of 6 rules returned two equally similar rules, neither the
\* first of the catalog, and left out a third as similar as they are
C13_Witness ==
    /\ Searched
    /\ call.topK = 2 /\ Len(rules) = MaxRules
    /\ Len(ret) = 2
    /\ ret[1].similarity = ret[2].similarity /\ ret[1].similarity > 0
    /\ 1 < ret[1].id /\ ret[1].id < ret[2].id
    /\ \E k \in 1..Len(rules) : k > ret[2].id /\ SimilarityOf(k) = ret[2].similarity

\* No rule of the catalog carries a similarity
C14_State == \A k \in 1..Len(rules) : ~rules[k].hasSimilarity

\* What a step may do to the catalog
C14_Step ==
    /\ (call'.op = "searchRules") => (rules' = rules)
    /\ (rules' # rules) =>
           (\/ call'.op = "initialize" /\ ~isInitialized
            \/ call'.op = "updateRuleEmbedding")
    /\ (call'.op = "updateRuleEmbedding") =>
           (/\ Len(rules') = Len(rules)
            /\ \A k \in 1..Len(rules) :
                   IF rules[k].id = call'.ruleId
                   THEN rules'[k] = [rules[k] EXCEPT !.hasEmbedding = TRUE,
                                                     !.embedding = call'.embedding]
                   ELSE rules'[k] = rules[k])

\* C14: searchRules leaves the catalog as it was - rule list, order, embeddings,
\* no similarity field; the catalog changes only by the first initialize and
\* by updateRuleEmbedding, which changes only the embedding of the rule with
\* the given id and nothing when no rule has that id.
C14_SearchLeavesCatalog == []C14_State /\ [][C14_Step]_vars

\* A search has answered with rules carrying similarities, on a catalog one of
\* whose embeddings had been replaced
C14_Witness ==
    /\ Searched
    /\ Len(ret) >= 2
    /\ \A m \in 1..Len(ret) : ret[m].hasSimilarity
    /\ ret[1].similarity > 0
    /\ \E k \in 1..Len(rules) :
           rules[k].embedding # generateSimpleEmbedding(rules[k].description)

ZeroNorm(vec) == sumOfSquares(vec.nz) = 0

\* C15: a search with a zero-norm query returns the rules in catalog order,
\* each with similarity exactly 0; a rule whose embedding is missing, has zero
\* norm or has another length than the query scores 0 for every query.
C15_ZeroNormScoresZero ==
    Searched =>
        /\ ZeroNorm(call.queryEmbedding) =>
               \A m \in 1..Len(ret) : ret[m].similarity = 0 /\ ret[m].id = rules[m].id
        /\ \A m \in 1..Len(ret) :
               (\/ ~ret[m].hasEmbedding
                \/ ZeroNorm(ret[m].embedding)
                \/ ret[m].embedding.length # call.queryEmbedding.length)
               => ret[m].similarity = 0

\* A search with the all-zero query of 384 components returned the first five
\* rules of the catalog, one of them holding an embedding of 2 components
C15_Witness ==
    /\ Searched
    /\ call.queryEmbedding = ZeroVector
    /\ [m \in 1..Len(ret) |-> ret[m].id] = <<1, 2, 3, 4, 5>>
    /\ \A m \in 1..Len(ret) : ret[m].similarity = 0
    /\ \E m \in 1..Len(ret) : ret[m].embedding.length = 2

-----------------------------------------------------------------------------
(* Properties of the embedding provider                                      *)

Embedded == call.op = "generateEmbedding"

\* The last generateEmbedding call took the fallback: no model, or the model threw
FellBack == Embedded /\ (embeddingModel = "null" \/ call.run.throws)

\* C16: generateEmbedding never raises; without a model, and when the model
\* throws during the call, it returns the fallback embedding of the text.
C16_EmbeddingNeverRaises ==
    Embedded =>
        /\ ~ret.raised
        /\ FellBack => ret.value = generateFallbackEmbedding(call.text)
        /\ ~FellBack => ret.value = call.run.output

\* The loaded pipeline threw on a text with a letter in it, and the fallback
\* embedding came back
C16_Witness ==
    /\ Embedded
    /\ embeddingModel = "pipeline"
    /\ call.run.throws
    /\ ~ret.raised
    /\ ret.value.unit

\* The fallback sum for dimension p over the words given: 1/(j + 1), in
\* sixtieths, for every word index i and character position j whose
\* character code c has (c * (i + 1)) mod 384 = p
HashedAt(words, p) ==
    LET hits == {ij \in (0..(Len(words) - 1)) \X (0..(MaxTextLen + 1)) :
                    /\ ij[2] < Len(At(words, ij[1]))
                    /\ (At(At(words, ij[1]), ij[2]) * (ij[1] + 1)) % 384 = p}
    IN  SumOver([ij \in hits |-> 60 \div (ij[2] + 1)], hits)

\* The vector the rule gives for the words: the sums at the dimensions that
\* receive something, divided by their magnitude, or the zero vector
Hashed(words) ==
    LET dims == {p \in 0..383 : HashedAt(words, p) # 0}
    IN  [length |-> 384,
         nz     |-> [p \in dims |-> HashedAt(words, p)],
         unit   |-> dims # {}]

\* C17 as claimed: the fallback embedding follows the rule with c the code of
\* the character as it stands in the text.
C17_RawCharacterCodes ==
    (Embedded /\ embeddingModel = "null") => ret.value = Hashed(split(call.text))

\* C17: the fallback embedding is a function of the text alone, following the
\* rule on the lower-cased text (c is the code of the lower-cased character,
\* the words are the pieces between runs of whitespace, with an empty word
\* before a leading run); it is the zero vector exactly when the text has no
\* character other than whitespace, and generateSimpleEmbedding gives the same
\* vector for every text.
C17_LowerCasedCodes ==
    (Embedded /\ embeddingModel = "null") =>
        LET lower == [k \in 1..Len(call.text) |->
                         IF call.text[k] \in 65..90 THEN call.text[k] + 32 ELSE call.text[k]]
        IN  /\ ret.value = Hashed(split(lower))
            /\ (ret.value = ZeroVector) <=> (\A k \in 1..Len(call.text) : call.text[k] = 32)
            /\ ret.value = generateFallbackEmbedding(call.text)
            /\ generateSimpleEmbedding(call.text) = generateFallbackEmbedding(call.text)

\* The fallback embedding of " A1": a capital letter, a leading space making
\* the word index 1, both characters adding to their own dimension
C17_Witness ==
    /\ Embedded /\ embeddingModel = "null"
    /\ call.text = <<32, 65, 49>>
    /\ DOMAIN ret.value.nz = {(97 * 2) % 384, (49 * 2) % 384}
    /\ ret.value.nz[98] = 30

-----------------------------------------------------------------------------
(* Properties of knowledge-enhanced analysis                                 *)

Analyzed == call.op = "analyzeMusicStructure"

\* The rules the top-5 search returned for the k-th structure of the last analysis
RetrievedFor(k) ==
    searchRules(rules,
                generateEmbedding(embeddingModel, call.queries[k].text,
                                  call.queries[k].run).value,
                5)

\* 0.5 + 0.5 * mean(similarity) in 1/12000, 0.5 for no rule
MeanConfidence(relevantRules) ==
    IF relevantRules = <<>> THEN 6000
    ELSE 6000 + (60 * SumOver([m \in 1..Len(relevantRules) |-> relevantRules[m].similarity],
                              1..Len(relevantRules))) \div Len(relevantRules)

\* C18: the confidence written on a structure is 0.5 + 0.5 * mean(similarity
\* of the rules the top-5 search returned), similarities of 0 included, and
\* 0.5 when the search returned no rule.
C18_ConfidenceIsMean ==
    Analyzed =>
        \A k \in 1..Len(ret) : ret[k].confidence = MeanConfidence(RetrievedFor(k))

\* C19: every structure analyzeMusicStructure returns has a confidence in
\* [0.5, 1.0], and differs from the structure of the analysis in nothing
\* but the confidence.
C19_ConfidenceBounds ==
    Analyzed =>
        /\ Len(ret) = Len(call.structures)
        /\ \A k \in 1..Len(ret) :
               /\ ret[k].confidence >= 6000 /\ ret[k].confidence <= 12000
               /\ ret[k] = [call.structures[k] EXCEPT !.confidence = ret[k].confidence]

-----------------------------------------------------------------------------
(* Properties of recognizeEmotions                                           *)

Recognized == call.op = "recognizeEmotions"

\* The confidence each threshold rule fixes for its emotion; the position
\* default gives 0.70 to whichever emotion it picks
RuleConfidence == [excited |-> 85, happy |-> 80, sad |-> 75, peaceful |-> 80, tense |-> 75]

\* C20: recognizeEmotions returns one entry per input structure, in input
\* order, carrying the structure's id, exactly one primary tag out of happy,
\* sad, excited, peaceful and tense, the fixed confidence of the rule branch
\* taken (0.85, 0.80 or 0.75 for a threshold rule, 0.70 for the position
\* default, hence within [0.70, 0.85]), and the four feature tags of that
\* emotion; this for every structure, one without notes or with
\* startMeasure > endMeasure included.
C20_OneEmotionPerStructure ==
    Recognized =>
        /\ Len(ret) = Len(call.structures)
        /\ \A k \in 1..Len(ret) :
               /\ ret[k].structureId = call.structures[k].id
               /\ ret[k].primary \in {"happy", "sad", "excited", "peaceful", "tense"}
               /\ ret[k].confidence >= 70 /\ ret[k].confidence <= 85
               /\ \/ ret[k].confidence = RuleConfidence[ret[k].primary]
                  \/ /\ ret[k].confidence = 70
                     /\ ret[k].primary = At(emotionTypes, (k - 1) % 5)
               /\ ret[k].features = featureMap[ret[k].primary]
               /\ Len(ret[k].features) = 4

\* A call on six structures: the first has notes and startMeasure >
\* endMeasure and is decided by a threshold rule, the second has no notes and
\* an empty span, and the sixth takes the position default, which has wrapped
\* round to the first emotion
C20_Witness ==
    /\ Recognized
    /\ Len(ret) = 6
    /\ call.structures[1].startMeasure > call.structures[1].endMeasure
    /\ Len(call.structures[1].notes) > 0
    /\ ret[1].confidence = 85
    /\ call.structures[2] = EmptySpanStructure(2)
    /\ ret[2].primary = "sad" /\ ret[2].confidence = 70
    /\ ret[6].primary = "happy" /\ ret[6].confidence = 70

\* The features of the k-th structure of the recorded call
FeaturesOf(k) == extractStructureFeatures(call.structures[k])

ExcitedRule(f) == GreaterThan(f.energy, 7, 10) /\ GreaterThan(f.brightness, 6, 10)

HappyRule(f) == GreaterThan(f.energy, 5, 10) /\ GreaterThan(f.brightness, 5, 10)

SadRule(f) == LessThan(f.energy, 3, 10) /\ LessThan(f.brightness, 4, 10)

PeacefulRule(f) == LessThan(f.energy, 4, 10) /\ GreaterThan(f.brightness, 5, 10)

TenseRule(f) == GreaterThan(f.tension, 6, 10)

\* C24: the threshold rules are tried in a fixed order and the first match
\* wins: energy > 0.7 and brightness > 0.6 gives excited; else energy > 0.5
\* and brightness > 0.5 gives happy; else energy < 0.3 and brightness < 0.4
\* gives sad; else energy < 0.4 and brightness > 0.5 gives peaceful; else
\* tension > 0.6 gives tense; otherwise the structure at position i gets the
\* tag at index i mod 5 of happy, sad, excited, peaceful, tense.  So a
\* structure of high tension is tagged by an energy and brightness rule
\* whenever one matches.
C24_FirstMatchWins ==
    Recognized =>
        \A k \in 1..Len(ret) :
            LET f == FeaturesOf(k)
                tag == ret[k].primary
            IN  /\ ExcitedRule(f) => tag = "excited"
                /\ (~ExcitedRule(f) /\ HappyRule(f)) => tag = "happy"
                /\ (~ExcitedRule(f) /\ ~HappyRule(f) /\ SadRule(f)) => tag = "sad"
                /\ (~ExcitedRule(f) /\ ~HappyRule(f) /\ ~SadRule(f) /\ PeacefulRule(f))
                       => tag = "peaceful"
                /\ (~ExcitedRule(f) /\ ~HappyRule(f) /\ ~SadRule(f) /\ ~PeacefulRule(f)
                    /\ TenseRule(f)) => tag = "tense"
                /\ (~ExcitedRule(f) /\ ~HappyRule(f) /\ ~SadRule(f) /\ ~PeacefulRule(f)
                    /\ ~TenseRule(f)) =>
                       tag = <<"happy", "sad", "excited", "peaceful", "tense">>[((k - 1) % 5) + 1]

\* Three structures: the first matches the excited rule, the happy rule and
\* the tension rule and is tagged excited, the second matches no rule and
\* gets the tag of position 1, the third that of position 2
C24_Witness ==
    /\ Recognized
    /\ Len(ret) = 3
    /\ ExcitedRule(FeaturesOf(1)) /\ HappyRule(FeaturesOf(1)) /\ TenseRule(FeaturesOf(1))
    /\ ret[1].primary = "excited"
    /\ call.structures[2] = PlainStructure(2)
    /\ ret[2].primary = "sad"
    /\ ret[3].primary = "excited"

-----------------------------------------------------------------------------
(* Properties of structure descriptions                                      *)

Described == call.op = "generateStructureDescription"

\* The pitch sequence of the structure of the recorded call
DescribedPitches ==
    LET notes == flatMapNotes(Slice(call.measures, call.structure.startMeasure - 1,
                                    call.structure.endMeasure))
    IN  [k \in 1..Len(notes) |-> notes[k].pitch]

\* Some pattern of 2 to 4 notes occurs at two places of the sequence, the
\* second beginning after the first has ended
RecursAnywhere(pitches) ==
    \E patternLen \in 2..4 :
        \E i \in 1..Len(pitches), j \in 1..Len(pitches) :
            /\ i + patternLen <= j
            /\ j + patternLen - 1 <= Len(pitches)
            /\ SubSeq(pitches, i, i + patternLen - 1) = SubSeq(pitches, j, j + patternLen - 1)

\* C25: a structure is marked self-repetitive (its description gets
\* "with repetitive patterns") exactly when some contiguous pattern of 2 to 4
\* notes occurs at least 2 times anywhere in its pitch sequence, whatever the
\* position of the occurrences.
C25_RepetitionAnywhere ==
    Described => (ret.withRepetitivePatterns <=> RecursAnywhere(DescribedPitches))

-----------------------------------------------------------------------------
(* Properties of model loading                                               *)

Awaiting ==
    {"initializeModels", "inferEmotion", "recommendVisuals", "identifyForm",
     "recognizeEmotions", "analyzeSimilarity"}

\* What the operation recorded in call returns by its rules alone
RuleBasedResults ==
    CASE call.op = "initializeModels" -> {"undefined"}
      [] call.op = "inferEmotion" -> {inferEmotion(call.features)}
      [] call.op = "recommendVisuals" ->
            {recommendVisuals(lastAnalysis, call.emotion, call.structureLevel,
                              call.preferences, call.structureId)}
      [] call.op = "identifyForm" -> {identifyForm(lastAnalysis, call.structures)}
      [] call.op = "recognizeEmotions" -> {recognizeEmotions(call.structures)}
      [] call.op = "analyzeSimilarity" ->
            {analyzeSimilarity(lastAnalysis, call.structures, random) :
                random \in RandomDraws(lastAnalysis, call.structures)}

\* C21: initializeModels never rejects.  Whether the load succeeded, the
\* embedding model failed to load or the knowledge base failed to initialise,
\* once an operation that awaits it has completed the status has
\* isLoading = false, the service is marked loaded, and the operation has
\* returned its rule-based result; when only the embedding model failed, the
\* status is progress 100, currentModel "Ready", error null.
C21_LoadNeverRejects ==
    call.op \in Awaiting =>
        /\ isModelLoaded
        /\ ~loadingStatus.isLoading
        /\ ret \in RuleBasedResults
        /\ Len(loadLog) = 1
        /\ loadLog[1] = "modelFailed" =>
               /\ embeddingModel = "null"
               /\ loadingStatus.progress = 100
               /\ loadingStatus.currentModel = "Ready"
               /\ loadingStatus.error = "null"

\* inferEmotion has returned a fast, strong, tense emotion on a service whose
\* knowledge base failed to initialise
C21_Witness ==
    /\ call.op = "inferEmotion"
    /\ loadLog = <<"knowledgeBaseFailed">>
    /\ loadingStatus.currentModel = "Failed to load"
    /\ ret = [speed |-> "fast", intensity |-> "strong", tension |-> "tense"]

\* One step of a service whose initializeModels has completed
C22_Step ==
    /\ isModelLoaded =>
           /\ isModelLoaded'
           /\ loadLog' = loadLog
           /\ embeddingModel' = embeddingModel
           /\ kb' = kb
           /\ loadingStatus' = loadingStatus
           /\ ~loadingStatus'.isLoading
    /\ (isModelLoaded /\ loadLog[1] # "loaded" /\ call'.op = "generateEmbedding") =>
           ret' = [raised |-> FALSE, value |-> generateFallbackEmbedding(call'.text)]

\* C22 for operations called one after the other: once initializeModels has
\* completed, with the embedding model loaded or not, no later operation
\* starts another load, changes the embedding model or the knowledge base
\* built by the load, or touches the loading status, whose isLoading stays
\* false; and when the load failed, every later generateEmbedding returns the
\* fallback embedding of its text.
C22_LoadNeverRetried == [][C22_Step]_vars

\* generateEmbedding has returned the fallback embedding of "a b c d" on a
\* service whose only load ended without an embedding model
C22_Witness ==
    /\ call.op = "generateEmbedding"
    /\ call.text = <<97, 32, 98, 32, 99, 32, 100>>
    /\ isModelLoaded
    /\ loadLog = <<"modelFailed">>
    /\ ~loadingStatus.isLoading
    /\ ret.value = generateFallbackEmbedding(call.text)

-----------------------------------------------------------------------------
(* Properties of the user store                                              *)

RECURSIVE RewardsOf(_, _)
\* The sum of the rewards a token received from the actions of a log
RewardsOf(token, log) ==
    IF log = <<>> THEN 0
    ELSE RewardsOf(token, SubSeq(log, 1, Len(log) - 1))
         + (IF token \in log[Len(log)].tokens
            THEN (CASE log[Len(log)].type = "accept" -> 2
                    [] log[Len(log)].type = "modify" -> 1
                    [] log[Len(log)].type = "reject" -> -2)
            ELSE 0)

\* C23: the weight table is an additive, unclamped tally.  After any sequence
\* of recordUserAction and clearPreferences calls, the table holds exactly
\* the tokens acted on since the last clear, each with the sum of the rewards
\* it received since then (accept +1, modify-and-keep +0.5, reject -1, here
\* in halves); so one action moves the tokens it names by its reward and no
\* other token, and clearPreferences leaves the table empty.
C23_WeightsAreRewardSums ==
    /\ DOMAIN weights = UNION {actionLog[k].tokens : k \in 1..Len(actionLog)}
    /\ \A token \in DOMAIN weights : weights[token] = RewardsOf(token, actionLog)
    /\ call.op = "clearPreferences" => DOMAIN weights = {}

\* Three actions after a clear: accept circle and flash, modify and keep
\* circle, accept circle again.  circle stands at 2.5, beyond a single reward,
\* flash at 1
C23_Witness ==
    /\ Len(actionLog) = 3
    /\ actionLog[1] = [type |-> "accept", tokens |-> {"circle", "flash"}]
    /\ actionLog[2].type = "modify"
    /\ actionLog[3].type = "accept"
    /\ weights["circle"] = 5
    /\ weights["flash"] = 2

-----------------------------------------------------------------------------
(* Properties of overlapping calls                                           *)

\* The caller has its form or its similarity groups
Answered(t) == tasks[t].pc = "done"

\* What the operation under way returns on the relationships of an analysis
AnswersFrom(t, analysis) ==
    IF tasks[t].op = "identifyForm"
    THEN {identifyForm(analysis, tasks[t].structures)}
    ELSE {analyzeSimilarity(analysis, tasks[t].structures, random) :
             random \in RandomDraws(analysis, tasks[t].structures)}

\* C26: identifyForm and analyzeSimilarity consult the relationships of the
\* analysis of the caller's score: when two analyzeMusicStructure calls on
\* the service overlap, a caller that then passes the structures it received
\* to identifyForm or analyzeSimilarity gets the result computed from the
\* relationships of its own score.
C26_OwnRelationships ==
    \A t \in Tasks :
        (Answered(t) /\ tasks[t].overlapped) => tasks[t].result \in AnswersFrom(t, ScoreAnalysis(t))

\* C27: on one service instance the embedding model load and the knowledge
\* base initialisation are started at most once, also when several
\* operations call initializeModels before the first call has completed.
C27_LoadStartedOnce ==
    /\ pipelineCalls <= 1
    /\ embeddingRuns <= Len(createTheoryRules)

\* One step of a service with callers, as to loading
C22_CallerStep ==
    /\ isModelLoaded =>
           /\ isModelLoaded'
           /\ ~loadingStatus'.isLoading
           /\ \A t \in Tasks :
                  (tasks[t].pc \in {"idle", "analyzed"} /\ tasks'[t].pc # tasks[t].pc)
                      => tasks'[t].pc = "initialized"
    /\ (call'.op = "generateEmbedding" /\ isModelLoaded' /\ loadLog'[1] # "loaded") =>
           ret' = [raised |-> FALSE, value |-> generateFallbackEmbedding(call'.text)]

\* C22: model loading is never retried.  Once initializeModels has completed
\* on a service, with the embedding model loaded or not, no operation called
\* later starts another model load or re-enters the loading status
\* (isLoading stays false), and if the load failed, every later
\* generateEmbedding returns the fallback embedding of its text.
C22_NoRetryAfterLoad == [][C22_CallerStep]_vars

-----------------------------------------------------------------------------
(* identifyForm: the Sonata rule comes last                                  *)

\* C29: identifyForm returns "Sonata Form" only when exactly 2 relationships
\* have type repeat, at least 2 have type contrast, there are at least 8
\* structures and the first and the last structure are not repeat-related;
\* with 3 or more repeat relationships and 8 or more structures the result is
\* the Ternary or the Rondo label, never Sonata.
C29_SonataLast ==
    Identified =>
        /\ ret = "Sonata Form" =>
               /\ ~lastAnalysis.isNull
               /\ NumberOf("repeat") = 2
               /\ NumberOf("contrast") >= 2
               /\ Len(call.structures) >= 8
               /\ ~FirstLastRepeat
        /\ (~lastAnalysis.isNull /\ NumberOf("repeat") >= 3 /\ Len(call.structures) >= 8)
           => ret \in {"Ternary Form (ABA)", "Rondo Form (ABACA)"}

\* identifyForm has returned "Sonata Form" for 8 structures whose first and
\* last are related by a contrast relationship
C29_Witness ==
    /\ Identified
    /\ ret = "Sonata Form"
    /\ Len(call.structures) = 8
    /\ \E k \in 1..Len(Recorded) :
          /\ Recorded[k].type = "contrast"
          /\ {Recorded[k].id1, Recorded[k].id2}
             = {call.structures[1].id, call.structures[8].id}

-----------------------------------------------------------------------------
(* analyzeSimilarity: whose structures are grouped                           *)

\* The ids of the structures in the argument of the call
ArgumentIds == {call.structures[k].id : k \in 1..Len(call.structures)}

\* C30: every structure id in every group returned by
\* analyzeSimilarity(structures) is the id of a structure in the structures
\* argument, in every service state, for the relationship-based and the
\* position-based grouping alike.
C30_GroupsWithinArgument ==
    Grouped =>
        \A g \in 1..Len(ret) :
            \A j \in 1..Len(ret[g].structureIds) : ret[g].structureIds[j] \in ArgumentIds

-----------------------------------------------------------------------------
(* Properties of the AIServiceFactory                                        *)

\* C28: with mock mode off, after any sequence of createAIService,
\* getAIServiceInstance and resetAIService calls, all createAIService calls
\* since the last resetAIService have returned the same instance;
\* getAIServiceInstance returns that instance and constructs none, and returns
\* null when no createAIService happened since the last reset or ever; the
\* first createAIService after a reset (or ever) returns a newly constructed
\* instance, which has no recorded analysis and is not initialized.
C28_OneInstancePerReset ==
    /\ Cardinality(returned) <= 1
    /\ call.op = "createAIService" =>
           /\ returned = {ret}
           /\ IF call.held = {}
              THEN /\ ret \notin 1..call.constructed
                   /\ Len(instances) = call.constructed + 1
                   /\ instances[ret].lastAnalysis.isNull
                   /\ ~instances[ret].isModelLoaded
              ELSE Len(instances) = call.constructed
    /\ call.op = "getAIServiceInstance" =>
           /\ Len(instances) = call.constructed
           /\ IF call.held = {} THEN ret = 0 ELSE call.held = {ret}

\* createAIService has been called for the first time after a reset, when the
\* instance handed out before the reset had been initialized and held an
\* analysis
C28_Witness ==
    /\ call.op = "createAIService"
    /\ call.held = {}
    /\ call.constructed >= 1
    /\ instances[call.constructed].isModelLoaded
    /\ ~instances[call.constructed].lastAnalysis.isNull

====
